---- MODULE Spec2Model ----
(***************************************************************************)
(* A model of mimalloc's concurrent bitmap (src/bitmap.c).                 *)
(*                                                                         *)
(* Every thread runs the C code one atomic memory access at a time: an     *)
(* action is one label of one function, and does the local computation of  *)
(* the code up to and including its next access to shared memory.  Calls   *)
(* push a return label on the thread's stack `stk`.                        *)
(*                                                                         *)
(* The word width is scaled down: a bfield has 16 bits (2 bytes) instead   *)
(* of 64, a chunk has 4 bfields (64 bits) instead of 8 (512 bits).         *)
(***************************************************************************)
EXTENDS Integers, Naturals, Sequences, FiniteSets, TLC

(***************************************************************************)
(* Program constants (bitmap.h), scaled.                                   *)
(***************************************************************************)
MI_BFIELD_SIZE == 2

MI_BFIELD_BITS == 8 * MI_BFIELD_SIZE

MI_BCHUNK_FIELDS == 4

MI_BCHUNK_BITS == MI_BCHUNK_FIELDS * MI_BFIELD_BITS

MI_BCHUNK_SIZE == MI_BCHUNK_BITS \div 8

\* width of size_t in the model (the code's `m -= MI_BFIELD_BITS` wraps)
MI_SIZE_BITS == 24

MI_BIT_SET == TRUE

MI_BIT_CLEAR == FALSE

(***************************************************************************)
(* Bounds of the model.                                                    *)
(***************************************************************************)
\* number of threads
NThreads == 2

\* number of operations a thread may start
MaxOps == 2

Threads == 1..NThreads

(***************************************************************************)
(* Machine words: a bfield is a number in 0 .. 2^MI_BFIELD_BITS - 1.       *)
(***************************************************************************)
RECURSIVE BitAnd(_, _)
BitAnd(x, y) ==
  IF x = 0 \/ y = 0 THEN 0
  ELSE (x % 2) * (y % 2) + 2 * BitAnd(x \div 2, y \div 2)

BitOr(x, y) == x + y - BitAnd(x, y)

mi_bfield_zero == 0

mi_bfield_one == 1

mi_bfield_all_set == 2^MI_BFIELD_BITS - 1

\* ~x on a bfield
BitNot(x) == mi_bfield_all_set - x

\* x << s on a bfield (bits shifted out are lost)
Shl(x, s) == (x * 2^s) % 2^MI_BFIELD_BITS

\* x >> s
Shr(x, s) == x \div 2^s

\* x - y on a bfield (wraps)
BSub(x, y) == (x - y + 2^MI_BFIELD_BITS) % 2^MI_BFIELD_BITS

\* x - y on a size_t (wraps)
SizeSub(x, y) == (x - y + 2^MI_SIZE_BITS) % 2^MI_SIZE_BITS

RECURSIVE mi_ctz(_)
mi_ctz(x) ==
  IF x = 0 THEN MI_BFIELD_BITS
  ELSE IF x % 2 = 1 THEN 0 ELSE 1 + mi_ctz(x \div 2)

mi_bfield_ctz(x) == mi_ctz(x)

RECURSIVE mi_popcount(_)
mi_popcount(x) == IF x = 0 THEN 0 ELSE (x % 2) + mi_popcount(x \div 2)

mi_bfield_popcount(x) == mi_popcount(x)

mi_bfield_clear_least_bit(x) == IF x = 0 THEN 0 ELSE BitAnd(x, x - 1)

\* [found, idx]: idx is meaningful only when found
mi_bfield_find_least_bit(x) == [found |-> x # 0, idx |-> mi_ctz(x)]

RECURSIVE mi_bsr_idx(_)
mi_bsr_idx(x) == IF x <= 1 THEN 0 ELSE 1 + mi_bsr_idx(x \div 2)

mi_bsr(x) == [found |-> x # 0, idx |-> mi_bsr_idx(x)]

mi_bfield_mask(bit_count, shiftl) ==
  LET mask0 == IF bit_count < MI_BFIELD_BITS
               THEN Shl(mi_bfield_one, bit_count) - 1
               ELSE mi_bfield_all_set
  IN  Shl(mask0, shiftl)

_mi_divide_up(a, b) == (a + b - 1) \div b

(***************************************************************************)
(* The atomic read-modify-write operations on one bfield, as functions of  *)
(* the value `old` the operation finds in the word.                        *)
(***************************************************************************)
\* variants: a set that returns without writing, a clear that returns true
\* whatever it found
atomic_set_lost(old, idx) ==
  [new |-> old, res |-> BitAnd(old, Shl(mi_bfield_one, idx)) = 0]

atomic_clear_true(old, idx) ==
  [new       |-> BitAnd(old, BitNot(Shl(mi_bfield_one, idx))),
   all_clear |-> BitAnd(old, BitNot(Shl(mi_bfield_one, idx))) = 0,
   res       |-> TRUE]

mi_bfield_atomic_set(old, idx) ==
  LET mask == Shl(mi_bfield_one, idx)
  IN  [new |-> BitOr(old, mask), res |-> BitAnd(old, mask) = 0]

mi_bfield_atomic_clear(old, idx) ==
  LET mask == Shl(mi_bfield_one, idx)
  IN  [new       |-> BitAnd(old, BitNot(mask)),
       all_clear |-> BitAnd(old, BitNot(mask)) = 0,
       res       |-> BitAnd(old, mask) = mask]

mi_bfield_atomic_setX(old) ==
  [new |-> mi_bfield_all_set, res |-> old = 0]

mi_bfield_atomic_clearX(old) ==
  [new |-> mi_bfield_zero, res |-> BitNot(old) = 0]

\* a compare-and-swap that reports success and leaves the field as it was
mi_bfield_atomic_try_clearX_keep(old) ==
  [new |-> old, res |-> old = mi_bfield_all_set]

\* compare-and-swap (strong) from all-ones to zero
mi_bfield_atomic_try_clearX(old) ==
  IF old = mi_bfield_all_set
  THEN [new |-> mi_bfield_zero, res |-> TRUE]
  ELSE [new |-> old, res |-> FALSE]

(***************************************************************************)
(* The compare-and-swap loops.  For a value `old` loaded from the word:    *)
(* bail  - the loop returns false without writing;                         *)
(* new   - the value the compare-and-swap tries to install;                *)
(* res, all_clear, already - what the function reports.                    *)
(***************************************************************************)
mi_bfield_atomic_set_mask(old, mask) ==
  [bail      |-> FALSE,
   new       |-> BitOr(old, mask),
   res       |-> BitAnd(old, mask) = 0,
   all_clear |-> FALSE,
   already   |-> mi_bfield_popcount(BitAnd(old, mask))]

mi_bfield_atomic_clear_mask(old, mask) ==
  [bail      |-> FALSE,
   new       |-> BitAnd(old, BitNot(mask)),
   res       |-> BitAnd(old, mask) = mask,
   all_clear |-> FALSE,
   already   |-> mi_bfield_popcount(BitNot(BitAnd(old, mask)))]

mi_bfield_atomic_clear8(old, mask) ==
  [bail      |-> FALSE,
   new       |-> BitAnd(old, BitNot(mask)),
   res       |-> BitAnd(old, mask) = mask,
   all_clear |-> BitAnd(old, BitNot(mask)) = 0,
   already   |-> 0]

\* variants of the two try-loops that write without their test
try_set_mask_untested(old, mask) ==
  [bail      |-> FALSE,
   new       |-> BitOr(old, mask),
   res       |-> TRUE,
   all_clear |-> FALSE,
   already   |-> 0]

try_clear_mask_untested(old, mask) ==
  [bail      |-> FALSE,
   new       |-> BitAnd(old, BitNot(mask)),
   res       |-> TRUE,
   all_clear |-> BitAnd(old, BitNot(mask)) = 0,
   already   |-> 0]

mi_bfield_atomic_try_set_mask(old, mask) ==
  [bail      |-> BitAnd(old, mask) # 0,
   new       |-> BitOr(old, mask),
   res       |-> BitAnd(old, mask) = 0,
   all_clear |-> FALSE,
   already   |-> 0]

mi_bfield_atomic_try_clear_mask(old, mask) ==
  [bail      |-> BitAnd(old, mask) # mask,
   new       |-> BitAnd(old, BitNot(mask)),
   res       |-> BitAnd(old, mask) = mask,
   all_clear |-> IF BitAnd(old, mask) # mask THEN old = 0
                 ELSE BitAnd(old, BitNot(mask)) = 0,
   already   |-> 0]

\* the loop selected by the name a caller stored in `a_op`
CasLoop(a_op, old, mask) ==
  CASE a_op = "set_mask"       -> mi_bfield_atomic_set_mask(old, mask)
    [] a_op = "clear_mask"     -> mi_bfield_atomic_clear_mask(old, mask)
    [] a_op = "clear8"         -> mi_bfield_atomic_clear8(old, mask)
    [] a_op = "try_set_mask"   -> mi_bfield_atomic_try_set_mask(old, mask)
    [] a_op = "try_clear_mask" -> mi_bfield_atomic_try_clear_mask(old, mask)

mi_bfield_atomic_xset_mask(set) == IF set THEN "set_mask" ELSE "clear_mask"

mi_bfield_atomic_try_xset_mask(set) ==
  IF set THEN "try_set_mask" ELSE "try_clear_mask"

(***************************************************************************)
(* State.                                                                  *)
(***************************************************************************)
VARIABLES
  chunks,              \* bitmap->chunks[i].bfields[j]
  chunkmap,            \* bitmap->chunkmap.bfields[j]
  chunk_count,         \* bitmap->chunk_count
  chunk_max_accessed,  \* bitmap->chunk_max_accessed
  busy_wait,           \* _mi_stats_main.pages_unabandon_busy_wait
  th,                  \* per thread: program counter, arguments, locals
  menu,                \* per thread: the calls it may make
  net                  \* history: per bit, the transitions mi_bitmap_xset reported

vars ==
  <<chunks, chunkmap, chunk_count, chunk_max_accessed, busy_wait, th, menu, net>>

\* what the code of the bitmap operations never writes
others == <<chunk_count, busy_wait, menu, net>>

mi_bitmap_chunk_count == chunk_count

mi_bitmap_max_bits == chunk_count * MI_BCHUNK_BITS

\* a word of the bitmap: of the chunkmap (cm) or of chunk c
ChunkLoc(c, f) == [cm |-> FALSE, c |-> c, f |-> f]

CmapLoc(f) == [cm |-> TRUE, c |-> 0, f |-> f]

Load(loc) == IF loc.cm THEN chunkmap[loc.f] ELSE chunks[loc.c][loc.f]

Store(loc, v) ==
  IF loc.cm
  THEN /\ chunkmap' = [chunkmap EXCEPT ![loc.f] = v]
       /\ UNCHANGED chunks
  ELSE /\ chunks' = [chunks EXCEPT ![loc.c][loc.f] = v]
       /\ UNCHANGED chunkmap

\* the absolute bit indices of the bits of `mask` in word `loc` of a chunk
MaskBits(loc, mask) ==
  IF loc.cm THEN {}
  ELSE { loc.c * MI_BCHUNK_BITS + loc.f * MI_BFIELD_BITS + b :
           b \in { k \in 0..(MI_BFIELD_BITS - 1) : Shr(mask, k) % 2 = 1 } }

BitIsSet(k) ==
  Shr(chunks[k \div MI_BCHUNK_BITS][(k % MI_BCHUNK_BITS) \div MI_BFIELD_BITS],
      k % MI_BFIELD_BITS) % 2 = 1

SetBits == { k \in 0..(mi_bitmap_max_bits - 1) : BitIsSet(k) }

CmapBitIsSet(i) ==
  Shr(chunkmap[i \div MI_BFIELD_BITS], i % MI_BFIELD_BITS) % 2 = 1

ChunkIsClear(i) == \A f \in 0..(MI_BCHUNK_FIELDS - 1) : chunks[i][f] = 0

ZeroChunk == [f \in 0..(MI_BCHUNK_FIELDS - 1) |-> 0]

(***************************************************************************)
(* Threads.  A thread is idle, or inside a call: `pc` is the label of the  *)
(* code it executes next and `stk` the labels its callers continue at.     *)
(* `hold` is a history field: the bits the thread cleared with a           *)
(* try-clear (a claim) and has not set since.                              *)
(***************************************************************************)
T0 ==
  [pc |-> "idle", stk |-> <<>>, ops |-> 0, hold |-> {},
   \* the call and its arguments, its result and *pidx
   op |-> "none", set |-> FALSE, idx |-> 0, n |-> 0, tseq |-> 0,
   ret |-> FALSE, ridx |-> 0,
   \* chunk_idx, cidx of the bitmap-level functions
   chunk_idx |-> 0, cidx |-> 0,
   \* a compare-and-swap loop on word a_loc: its name, mask, `old`, results
   a_op |-> "none", a_loc |-> ChunkLoc(0, 0), a_mask |-> 0, a_old |-> 0,
   a_res |-> FALSE, a_ac |-> FALSE, a_cnt |-> 0,
   \* mi_bchunk_all_are_clear: field index, result
   ac_i |-> 0, ac_res |-> FALSE,
   \* mi_bitmap_chunkmap_set_max
   oldmax |-> 0,
   \* mi_bchunk_xsetN: field, idx, n, all_transition, total_already_xset
   xn_field |-> 0, xn_idx |-> 0, xn_n |-> 0, xn_m |-> 0,
   xn_all |-> TRUE, xn_total |-> 0, xn_set |-> FALSE,
   \* *already_xset of mi_bitmap_xsetN
   already |-> 0,
   \* mi_bchunk_try_xsetN: set, field, start_field, end_field, n, the masks,
   \* the result
   tx_set |-> FALSE, tx_field |-> 0, tx_start_field |-> 0, tx_end_field |-> 0,
   tx_n |-> 0, tx_mask_start |-> 0, tx_mask_mid |-> 0, tx_mask_end |-> 0,
   tx_res |-> FALSE,
   \* mi_bitmap_find: cmap_mask, cmap_acc, cmap_acc_bits; the outer iteration
   \* (_cycle_mask, _bcount, _b, cmap_idx) and the inner one over cmap_entry
   cmap_mask |-> 0, cmap_acc |-> 0, cmap_acc_bits |-> 0,
   x_mask |-> 0, x_bcount |-> 0, x_b |-> 0, cmap_idx |-> 0,
   cmap_entry |-> 0, y_mask |-> 0, y_bcount |-> 0, y_b |-> 0,
   \* the chunk-level finders: field i, pass (allow_allset), cidx, b, bshift,
   \* idx, j, m
   fi |-> 0, fpass |-> 0, fcidx |-> 0, fb |-> 0, fbshift |-> 0, fidx |-> 0,
   fj |-> 0, fm |-> 0,
   \* mi_bitmap_unsafe_setN: the remaining n, end_chunk, in the last chunk
   un_n |-> 0, un_end |-> 0, un_last |-> FALSE,
   \* history: every `mi_assert_internal(wasclear)` of the claim visitor held
   wasclear |-> TRUE,
   \* history: the bits that the latest successful try-clear of this call
   \* took from 1 to 0 in its one atomic write
   lin |-> {},
   \* history: the chunk as it was when a call of mi_bchunk_try_xsetN began
   snap |-> ZeroChunk,
   \* history of the sequential clients: all chunks and the chunkmap as they
   \* were when the call began, the result of the first call of a pair
   pre |-> <<>>, pre_cmap |-> <<>>, ret1 |-> FALSE,
   \* history: the calls of the visitor of _mi_bitmap_forall_set and of the
   \* claim_fun of mi_bitmap_try_find_and_claim, each the index it was
   \* called with and what it returned
   visited |-> <<>>]

\* return to the caller
Return(t) == [t EXCEPT !.pc = Head(t.stk), !.stk = Tail(t.stk)]

\* call `label`, continue at `k`
Call(t, label, k) == [t EXCEPT !.pc = label, !.stk = <<k>> \o t.stk]

(***************************************************************************)
(* The compare-and-swap loops of the bfield layer:                         *)
(*   old = load(b); do { if (bail) return false; } while (!cas(b,&old,new)) *)
(***************************************************************************)
CasCall(t, a_op, loc, mask, k) ==
  [Call(t, "cas_load", k) EXCEPT !.a_op = a_op, !.a_loc = loc, !.a_mask = mask]

CasReturn(t, r, done) ==
  [Return(t) EXCEPT !.a_res = done /\ r.res, !.a_ac = r.all_clear,
                    !.a_cnt = r.already, !.a_old = 0]

\* what a successful write of the loop does to the thread's claim
CasHold(t, a_op, loc, mask) ==
  CASE a_op = "try_clear_mask" -> t.hold \cup MaskBits(loc, mask)
    [] a_op \in {"set_mask", "try_set_mask"} -> t.hold \ MaskBits(loc, mask)
    [] OTHER -> t.hold

\* mi_atomic_load_relaxed(b) and the first test of the loop
cas_load(self) ==
  LET t == th[self]
      old == Load(t.a_loc)
      r == CasLoop(t.a_op, old, t.a_mask)
  IN  /\ t.pc = "cas_load"
      /\ th' = [th EXCEPT ![self] =
                  IF r.bail THEN CasReturn(t, r, FALSE)
                  ELSE [t EXCEPT !.pc = "cas_try", !.a_old = old]]
      /\ UNCHANGED <<chunks, chunkmap, chunk_max_accessed, others>>

\* a loop that does not take the value the failed compare-and-swap loaded
cas_try_keeps_old(self) ==
  LET t == th[self]
      cur == Load(t.a_loc)
      r == CasLoop(t.a_op, t.a_old, t.a_mask)
  IN  /\ t.pc = "cas_try"
      /\ IF cur = t.a_old
         THEN /\ Store(t.a_loc, r.new)
              /\ th' = [th EXCEPT ![self] =
                          [CasReturn(t, r, TRUE) EXCEPT
                             !.hold = CasHold(t, t.a_op, t.a_loc, t.a_mask),
                             !.lin = IF t.a_op = "try_clear_mask"
                                     THEN MaskBits(t.a_loc, t.a_mask)
                                     ELSE t.lin]]
         ELSE UNCHANGED <<th, chunks, chunkmap>>
      /\ UNCHANGED <<chunk_max_accessed, others>>

\* mi_atomic_cas_weak_acq_rel(b, &old, new) and, when it fails, the next test
cas_try(self) ==
  LET t == th[self]
      cur == Load(t.a_loc)
      r == CasLoop(t.a_op, t.a_old, t.a_mask)
      r2 == CasLoop(t.a_op, cur, t.a_mask)
  IN  /\ t.pc = "cas_try"
      /\ IF cur = t.a_old
         THEN /\ Store(t.a_loc, r.new)
              /\ th' = [th EXCEPT ![self] =
                          [CasReturn(t, r, TRUE) EXCEPT
                             !.hold = CasHold(t, t.a_op, t.a_loc, t.a_mask),
                             !.lin = IF t.a_op = "try_clear_mask"
                                     THEN MaskBits(t.a_loc, t.a_mask)
                                     ELSE t.lin]]
         ELSE /\ th' = [th EXCEPT ![self] =
                          IF r2.bail THEN CasReturn(t, r2, FALSE)
                          ELSE [t EXCEPT !.a_old = cur]]
              /\ UNCHANGED <<chunks, chunkmap>>
      /\ UNCHANGED <<chunk_max_accessed, others>>

(***************************************************************************)
(* bchunk: a bit index cidx of a chunk is bit (cidx % MI_BFIELD_BITS) of   *)
(* field (cidx / MI_BFIELD_BITS).                                          *)
(***************************************************************************)
mi_bchunk_set(old, cidx) == mi_bfield_atomic_set(old, cidx % MI_BFIELD_BITS)

mi_bchunk_clear(old, cidx) == mi_bfield_atomic_clear(old, cidx % MI_BFIELD_BITS)

mi_bchunk_field(cidx) == cidx \div MI_BFIELD_BITS

\* the mask of byte byte_idx of a chunk within its field
mi_bchunk_mask8(byte_idx) == Shl(255, (byte_idx % MI_BFIELD_SIZE) * 8)

mi_bchunk_field8(byte_idx) == byte_idx \div MI_BFIELD_SIZE

(***************************************************************************)
(* mi_bchunk_all_are_clear(&bitmap->chunks[chunk_idx]): one load per step. *)
(***************************************************************************)
\* a variant that reports every chunk as clear
all_are_clear_always(self) ==
  LET t == th[self]
  IN  /\ t.pc = "mi_bchunk_all_are_clear"
      /\ th' = [th EXCEPT ![self] = [Return(t) EXCEPT !.ac_res = TRUE, !.ac_i = 0]]
      /\ UNCHANGED <<chunks, chunkmap, chunk_max_accessed, others>>

mi_bchunk_all_are_clear(self) ==
  LET t == th[self]
      b == chunks[t.chunk_idx][t.ac_i]
  IN  /\ t.pc = "mi_bchunk_all_are_clear"
      /\ th' = [th EXCEPT ![self] =
                  IF b # 0
                  THEN [Return(t) EXCEPT !.ac_res = FALSE, !.ac_i = 0]
                  ELSE IF t.ac_i + 1 = MI_BCHUNK_FIELDS
                  THEN [Return(t) EXCEPT !.ac_res = TRUE, !.ac_i = 0]
                  ELSE [t EXCEPT !.ac_i = t.ac_i + 1]]
      /\ UNCHANGED <<chunks, chunkmap, chunk_max_accessed, others>>

(***************************************************************************)
(* chunkmap                                                                *)
(***************************************************************************)
\* call mi_bitmap_chunkmap_set(bitmap, t.chunk_idx), then return
mi_bitmap_chunkmap_set(t) == [t EXCEPT !.pc = "chunkmap_set"]

\* call mi_bitmap_chunkmap_try_clear(bitmap, t.chunk_idx), then return
mi_bitmap_chunkmap_try_clear(t) ==
  [Call(t, "mi_bchunk_all_are_clear", "chunkmap_try_clear_1") EXCEPT
     !.ac_i = 0]

\* mi_bchunk_set(&bitmap->chunkmap, chunk_idx)
chunkmap_set(self) ==
  LET t == th[self]
      loc == CmapLoc(mi_bchunk_field(t.chunk_idx))
      r == mi_bchunk_set(Load(loc), t.chunk_idx)
  IN  /\ t.pc = "chunkmap_set"
      /\ Store(loc, r.new)
      /\ th' = [th EXCEPT ![self] = [t EXCEPT !.pc = "chunkmap_set_max"]]
      /\ UNCHANGED <<chunk_max_accessed, others>>

\* mi_bitmap_chunkmap_set_max: the load and the test
chunkmap_set_max(self) ==
  LET t == th[self]
      oldmax == chunk_max_accessed
  IN  /\ t.pc = "chunkmap_set_max"
      /\ th' = [th EXCEPT ![self] =
                  IF t.chunk_idx > oldmax
                  THEN [t EXCEPT !.pc = "chunkmap_set_max_cas", !.oldmax = oldmax]
                  ELSE Return(t)]
      /\ UNCHANGED <<chunks, chunkmap, chunk_max_accessed, others>>

\* a plain store in place of the compare-and-swap
chunkmap_set_max_store(cur, oldmax, chunk_idx) == chunk_idx

\* the new value of chunk_max_accessed after cas_strong(&max, &oldmax, chunk_idx)
mi_bitmap_chunkmap_set_max_cas(cur, oldmax, chunk_idx) ==
  IF cur = oldmax THEN chunk_idx ELSE cur

chunkmap_set_max_cas(self) ==
  LET t == th[self]
  IN  /\ t.pc = "chunkmap_set_max_cas"
      /\ chunk_max_accessed' =
           mi_bitmap_chunkmap_set_max_cas(chunk_max_accessed, t.oldmax, t.chunk_idx)
      /\ th' = [th EXCEPT ![self] = [Return(t) EXCEPT !.oldmax = 0]]
      /\ UNCHANGED <<chunks, chunkmap, others>>

\* mi_bitmap_chunkmap_try_clear after the first all-clear test: return
\* a variant that returns without clearing the chunkmap bit
chunkmap_try_clear_1_keep(self) ==
  LET t == th[self]
  IN  /\ t.pc = "chunkmap_try_clear_1"
      /\ th' = [th EXCEPT ![self] = [Return(t) EXCEPT !.ac_res = FALSE]]
      /\ UNCHANGED <<chunks, chunkmap, chunk_max_accessed, others>>

\* false, or clear the chunkmap bit and test again
chunkmap_try_clear_1(self) ==
  LET t == th[self]
      loc == CmapLoc(mi_bchunk_field(t.chunk_idx))
      r == mi_bchunk_clear(Load(loc), t.chunk_idx)
  IN  /\ t.pc = "chunkmap_try_clear_1"
      /\ IF ~t.ac_res
         THEN /\ th' = [th EXCEPT ![self] = Return(t)]
              /\ UNCHANGED <<chunks, chunkmap>>
         ELSE /\ Store(loc, r.new)
              /\ th' = [th EXCEPT ![self] =
                          [t EXCEPT !.pc = "mi_bchunk_all_are_clear", !.ac_i = 0,
                                    !.ac_res = FALSE,
                                    !.stk = <<"chunkmap_try_clear_2">> \o t.stk]]
      /\ UNCHANGED <<chunk_max_accessed, others>>

\* a variant of the second test that never restores the chunkmap bit
chunkmap_try_clear_2_no_restore(self) ==
  LET t == th[self]
  IN  /\ t.pc = "chunkmap_try_clear_2"
      /\ th' = [th EXCEPT ![self] =
                  [t EXCEPT !.pc = "chunkmap_set_max", !.ac_res = FALSE]]
      /\ UNCHANGED <<chunks, chunkmap, chunk_max_accessed, others>>

\* ... after the second test: restore the chunkmap bit, or set the max
chunkmap_try_clear_2(self) ==
  LET t == th[self]
      loc == CmapLoc(mi_bchunk_field(t.chunk_idx))
      r == mi_bchunk_set(Load(loc), t.chunk_idx)
  IN  /\ t.pc = "chunkmap_try_clear_2"
      /\ IF ~t.ac_res
         THEN /\ Store(loc, r.new)
              /\ th' = [th EXCEPT ![self] = Return(t)]
         ELSE /\ th' = [th EXCEPT ![self] =
                          [t EXCEPT !.pc = "chunkmap_set_max", !.ac_res = FALSE]]
              /\ UNCHANGED <<chunks, chunkmap>>
      /\ UNCHANGED <<chunk_max_accessed, others>>

(***************************************************************************)
(* mi_bitmap_xset(set, bitmap, idx)                                        *)
(***************************************************************************)
mi_bitmap_xset(self) ==
  LET t == th[self]
      chunk_idx == t.idx \div MI_BCHUNK_BITS
      cidx == t.idx % MI_BCHUNK_BITS
      loc == ChunkLoc(chunk_idx, mi_bchunk_field(cidx))
      t1 == [t EXCEPT !.chunk_idx = chunk_idx, !.cidx = cidx]
  IN  /\ t.pc = "mi_bitmap_xset"
      /\ IF t.set
         THEN LET r == mi_bchunk_set(Load(loc), cidx)
              IN  /\ Store(loc, r.new)
                  /\ th' = [th EXCEPT ![self] =
                              mi_bitmap_chunkmap_set(
                                [t1 EXCEPT !.ret = r.res,
                                           !.hold = t.hold \ {t.idx}])]
         ELSE LET r == mi_bchunk_clear(Load(loc), cidx)
              IN  /\ Store(loc, r.new)
                  /\ th' = [th EXCEPT ![self] =
                              IF r.all_clear
                              THEN mi_bitmap_chunkmap_try_clear(
                                     [t1 EXCEPT !.ret = r.res])
                              ELSE Return([t1 EXCEPT !.ret = r.res])]
      /\ UNCHANGED <<chunk_max_accessed, others>>

(***************************************************************************)
(* mi_bchunk_xsetN(set, chunk, cidx, n, &already): one mask per field,     *)
(* each applied with mi_bfield_atomic_xset_mask.  Not atomic across fields.*)
(***************************************************************************)
\* the head of the loop `while (n > 0)`: apply the next mask, or return
mi_bchunk_xsetN_loop(t) ==
  IF t.xn_n = 0
  THEN [Return(t) EXCEPT !.xn_field = 0, !.xn_idx = 0, !.xn_m = 0]
  ELSE LET m0 == MI_BFIELD_BITS - t.xn_idx
           m == IF m0 > t.xn_n THEN t.xn_n ELSE m0
           mask == mi_bfield_mask(m, t.xn_idx)
       IN  CasCall([t EXCEPT !.xn_m = m],
                   mi_bfield_atomic_xset_mask(t.xn_set),
                   ChunkLoc(t.chunk_idx, t.xn_field), mask,
                   "mi_bchunk_xsetN_next")

\* call mi_bchunk_xsetN on chunk t.chunk_idx and continue at k
mi_bchunk_xsetN(t, set, cidx, n, k) ==
  mi_bchunk_xsetN_loop(
    [t EXCEPT !.stk = <<k>> \o t.stk,
              !.xn_set = set, !.xn_all = TRUE, !.xn_total = 0,
              !.xn_idx = cidx % MI_BFIELD_BITS,
              !.xn_field = cidx \div MI_BFIELD_BITS,
              !.xn_n = n])

\* after the mask of one field: accumulate, next field
mi_bchunk_xsetN_next(self) ==
  LET t == th[self]
  IN  /\ t.pc = "mi_bchunk_xsetN_next"
      /\ th' = [th EXCEPT ![self] =
                  mi_bchunk_xsetN_loop(
                    [t EXCEPT !.xn_all = t.xn_all /\ t.a_res,
                              !.xn_total = t.xn_total + t.a_cnt,
                              !.xn_field = t.xn_field + 1,
                              !.xn_idx = 0,
                              !.xn_n = t.xn_n - t.xn_m,
                              !.a_res = FALSE, !.a_cnt = 0, !.a_ac = FALSE])]
      /\ UNCHANGED <<chunks, chunkmap, chunk_max_accessed, others>>

(***************************************************************************)
(* mi_bchunk_try_xsetN(set, chunk, cidx, n, &maybe_all_clear): the first   *)
(* field, the full middle fields, the last field; when a field fails the   *)
(* fields already written are restored.                                    *)
(***************************************************************************)
TxReturn(t, res) ==
  [Return(t) EXCEPT !.tx_res = res, !.tx_field = 0, !.tx_start_field = 0,
                    !.tx_end_field = 0, !.tx_n = 0, !.tx_mask_start = 0,
                    !.tx_mask_mid = 0, !.tx_mask_end = 0, !.tx_set = FALSE,
                    !.a_res = FALSE, !.a_ac = FALSE]

\* call mi_bchunk_try_xsetN on chunk t.chunk_idx and continue at k
mi_bchunk_try_xsetN(t, set, cidx, n, k) ==
  LET start_idx == cidx % MI_BFIELD_BITS
      start_field == cidx \div MI_BFIELD_BITS
      m0 == MI_BFIELD_BITS - start_idx
      m == IF m0 > n THEN n ELSE m0
      mask_start == mi_bfield_mask(m, start_idx)
      t1 == [t EXCEPT !.stk = <<k>> \o t.stk,
                      !.tx_set = set, !.tx_field = start_field,
                      !.tx_start_field = start_field,
                      !.tx_end_field = MI_BCHUNK_FIELDS,
                      !.tx_mask_start = mask_start, !.tx_mask_mid = 0,
                      !.tx_mask_end = 0, !.tx_n = n - m]
  IN  CasCall(t1, mi_bfield_atomic_try_xset_mask(set),
              ChunkLoc(t.chunk_idx, start_field), mask_start,
              "mi_bchunk_try_xsetN_first")

\* the middle fields (while n >= MI_BFIELD_BITS), then the last field
mi_bchunk_try_xsetN_more(t) ==
  IF t.tx_n >= MI_BFIELD_BITS
  THEN CasCall([t EXCEPT !.tx_field = t.tx_field + 1,
                         !.tx_mask_mid = mi_bfield_all_set],
               mi_bfield_atomic_try_xset_mask(t.tx_set),
               ChunkLoc(t.chunk_idx, t.tx_field + 1), mi_bfield_all_set,
               "mi_bchunk_try_xsetN_mid")
  ELSE IF t.tx_n > 0
  THEN CasCall([t EXCEPT !.tx_field = t.tx_field + 1,
                         !.tx_end_field = t.tx_field + 1,
                         !.tx_mask_end = mi_bfield_mask(t.tx_n, 0)],
               mi_bfield_atomic_try_xset_mask(t.tx_set),
               ChunkLoc(t.chunk_idx, t.tx_field + 1),
               mi_bfield_mask(t.tx_n, 0),
               "mi_bchunk_try_xsetN_last")
  ELSE TxReturn(t, TRUE)

\* a variant of the restore loop's mask that restores nothing
restore_mask_none(t, field) == mi_bfield_zero

\* the mask the restore loop uses for `field`
mi_bchunk_try_xsetN_restore_mask(t, field) ==
  IF field = t.tx_start_field THEN t.tx_mask_start
  ELSE IF field = t.tx_end_field THEN t.tx_mask_end ELSE t.tx_mask_mid

\* restore: while (field > start_field) { field--; xset_mask(!set, mask) }
mi_bchunk_try_xsetN_restore_loop(t) ==
  IF t.tx_field > t.tx_start_field
  THEN LET field == t.tx_field - 1
           mask == mi_bchunk_try_xsetN_restore_mask(t, field)
       IN  CasCall([t EXCEPT !.tx_field = field],
                   mi_bfield_atomic_xset_mask(~t.tx_set),
                   ChunkLoc(t.chunk_idx, field), mask,
                   "mi_bchunk_try_xsetN_restore")
  ELSE TxReturn(t, FALSE)

mi_bchunk_try_xsetN_first(self) ==
  LET t == th[self]
  IN  /\ t.pc = "mi_bchunk_try_xsetN_first"
      /\ th' = [th EXCEPT ![self] =
                  IF ~t.a_res THEN TxReturn(t, FALSE)
                  ELSE IF t.tx_n = 0 THEN TxReturn(t, TRUE)
                  ELSE mi_bchunk_try_xsetN_more(t)]
      /\ UNCHANGED <<chunks, chunkmap, chunk_max_accessed, others>>

mi_bchunk_try_xsetN_mid(self) ==
  LET t == th[self]
  IN  /\ t.pc = "mi_bchunk_try_xsetN_mid"
      /\ th' = [th EXCEPT ![self] =
                  IF ~t.a_res THEN mi_bchunk_try_xsetN_restore_loop(t)
                  ELSE mi_bchunk_try_xsetN_more(
                         [t EXCEPT !.tx_n = t.tx_n - MI_BFIELD_BITS])]
      /\ UNCHANGED <<chunks, chunkmap, chunk_max_accessed, others>>

mi_bchunk_try_xsetN_last(self) ==
  LET t == th[self]
  IN  /\ t.pc = "mi_bchunk_try_xsetN_last"
      /\ th' = [th EXCEPT ![self] =
                  IF ~t.a_res THEN mi_bchunk_try_xsetN_restore_loop(t)
                  ELSE TxReturn(t, TRUE)]
      /\ UNCHANGED <<chunks, chunkmap, chunk_max_accessed, others>>

mi_bchunk_try_xsetN_restore(self) ==
  LET t == th[self]
  IN  /\ t.pc = "mi_bchunk_try_xsetN_restore"
      /\ th' = [th EXCEPT ![self] = mi_bchunk_try_xsetN_restore_loop(t)]
      /\ UNCHANGED <<chunks, chunkmap, chunk_max_accessed, others>>

\* a direct call mi_bchunk_try_xsetN(set, &bitmap->chunks[idx / B], idx % B, n, NULL)
call_try_xsetN(self) ==
  LET t == th[self]
      t1 == [t EXCEPT !.chunk_idx = t.idx \div MI_BCHUNK_BITS,
                      !.cidx = t.idx % MI_BCHUNK_BITS]
  IN  /\ t.pc = "call_try_xsetN"
      /\ th' = [th EXCEPT ![self] =
                  mi_bchunk_try_xsetN(t1, t.set, t1.cidx, t.n, "call_try_xsetN_ret")]
      /\ UNCHANGED <<chunks, chunkmap, chunk_max_accessed, others>>

call_try_xsetN_ret(self) ==
  LET t == th[self]
  IN  /\ t.pc = "call_try_xsetN_ret"
      /\ th' = [th EXCEPT ![self] =
                  [Return(t) EXCEPT !.ret = t.tx_res, !.tx_res = FALSE]]
      /\ UNCHANGED <<chunks, chunkmap, chunk_max_accessed, others>>

(***************************************************************************)
(* mi_bitmap_xset8, mi_bitmap_xsetX, mi_bitmap_xsetN_                      *)
(***************************************************************************)
mi_bitmap_xset8(self) ==
  LET t == th[self]
      chunk_idx == t.idx \div MI_BCHUNK_BITS
      byte_idx == (t.idx % MI_BCHUNK_BITS) \div 8
      t1 == [t EXCEPT !.chunk_idx = chunk_idx, !.cidx = t.idx % MI_BCHUNK_BITS]
  IN  /\ t.pc = "mi_bitmap_xset8"
      /\ th' = [th EXCEPT ![self] =
                  CasCall(t1, IF t.set THEN "set_mask" ELSE "clear8",
                          ChunkLoc(chunk_idx, mi_bchunk_field8(byte_idx)),
                          mi_bchunk_mask8(byte_idx), "mi_bitmap_xset8_1")]
      /\ UNCHANGED <<chunks, chunkmap, chunk_max_accessed, others>>

mi_bitmap_xset8_1(self) ==
  LET t == th[self]
      t1 == [t EXCEPT !.ret = t.a_res, !.a_res = FALSE, !.a_ac = FALSE,
                      !.a_cnt = 0]
  IN  /\ t.pc = "mi_bitmap_xset8_1"
      /\ th' = [th EXCEPT ![self] =
                  IF t.set THEN mi_bitmap_chunkmap_set(t1)
                  ELSE IF t.a_ac THEN mi_bitmap_chunkmap_try_clear(t1)
                  ELSE Return(t1)]
      /\ UNCHANGED <<chunks, chunkmap, chunk_max_accessed, others>>

mi_bitmap_xsetX(self) ==
  LET t == th[self]
      chunk_idx == t.idx \div MI_BCHUNK_BITS
      field_idx == (t.idx % MI_BCHUNK_BITS) \div MI_BFIELD_BITS
      loc == ChunkLoc(chunk_idx, field_idx)
      t1 == [t EXCEPT !.chunk_idx = chunk_idx, !.cidx = t.idx % MI_BCHUNK_BITS]
  IN  /\ t.pc = "mi_bitmap_xsetX"
      /\ IF t.set
         THEN LET r == mi_bfield_atomic_setX(Load(loc))
              IN  /\ Store(loc, r.new)
                  /\ th' = [th EXCEPT ![self] =
                              mi_bitmap_chunkmap_set(
                                [t1 EXCEPT !.ret = r.res,
                                           !.hold = t.hold \ MaskBits(loc, mi_bfield_all_set)])]
         ELSE LET r == mi_bfield_atomic_clearX(Load(loc))
              IN  /\ Store(loc, r.new)
                  /\ th' = [th EXCEPT ![self] =
                              mi_bitmap_chunkmap_try_clear([t1 EXCEPT !.ret = r.res])]
      /\ UNCHANGED <<chunk_max_accessed, others>>

mi_bitmap_xsetN_(self) ==
  LET t == th[self]
      chunk_idx == t.idx \div MI_BCHUNK_BITS
      cidx == t.idx % MI_BCHUNK_BITS
      n == IF cidx + t.n > MI_BCHUNK_BITS THEN MI_BCHUNK_BITS - cidx ELSE t.n
      t1 == [t EXCEPT !.chunk_idx = chunk_idx, !.cidx = cidx, !.n = n]
  IN  /\ t.pc = "mi_bitmap_xsetN_"
      /\ th' = [th EXCEPT ![self] =
                  mi_bchunk_xsetN(t1, t.set, cidx, n, "mi_bitmap_xsetN_1")]
      /\ UNCHANGED <<chunks, chunkmap, chunk_max_accessed, others>>

mi_bitmap_xsetN_1(self) ==
  LET t == th[self]
      t1 == [t EXCEPT !.ret = t.xn_all, !.already = t.xn_total,
                      !.xn_all = TRUE, !.xn_total = 0, !.xn_set = FALSE]
  IN  /\ t.pc = "mi_bitmap_xsetN_1"
      /\ th' = [th EXCEPT ![self] =
                  IF t.set THEN mi_bitmap_chunkmap_set(t1)
                  ELSE IF t.xn_total < t.n THEN mi_bitmap_chunkmap_try_clear(t1)
                  ELSE Return(t1)]
      /\ UNCHANGED <<chunks, chunkmap, chunk_max_accessed, others>>

(***************************************************************************)
(* mi_bitmap_find: iterate over the chunkmap fields (X) and over the set   *)
(* bits of each chunkmap entry (Y) with mi_bfield_cycle_iterate, calling   *)
(* the visitor for every chunk index found.                                *)
(***************************************************************************)
\* the three mi_assert_internal of mi_bfield_iterate
mi_bfield_iterate_asserts(start, cycle) ==
  /\ start <= cycle
  /\ start < MI_BFIELD_BITS
  /\ cycle < MI_BFIELD_BITS

\* an iteration that always starts at bit 0
mi_bfield_cycle_mask_from_0(tseq, cycle) == mi_bfield_mask(cycle, 0)

\* mi_bfield_cycle_iterate: start and the mask of [start, cycle>
mi_bfield_cycle_mask(tseq, cycle) ==
  LET start == tseq % cycle
  IN  mi_bfield_mask(cycle - start, start)

\* an iteration that starts over with the whole field when `_b` is used up
mi_bfield_iterate_b_again(b, bfield, cycle_mask) ==
  IF b = 0 THEN bfield ELSE b

\* the bits the loop body looks at: `if (_b==0) { _b = bfield & ~_cycle_mask; }`
mi_bfield_iterate_b(b, bfield, cycle_mask) ==
  IF b = 0 THEN BitAnd(bfield, BitNot(cycle_mask)) ELSE b

FindReset(t) ==
  [t EXCEPT !.cmap_mask = 0, !.cmap_acc = 0, !.cmap_acc_bits = 0,
            !.x_mask = 0, !.x_bcount = 0, !.x_b = 0, !.cmap_idx = 0,
            !.cmap_entry = 0, !.y_mask = 0, !.y_bcount = 0, !.y_b = 0,
            !.chunk_idx = 0, !.fi = 0, !.fpass = 0, !.fcidx = 0,
            !.fb = 0, !.fbshift = 0, !.fidx = 0, !.fj = 0, !.fm = 0,
            !.a_res = FALSE, !.a_ac = FALSE, !.tx_res = FALSE,
            !.ac_res = FALSE]

\* mi_bitmap_find returns: the call is over
FindReturn(t, found, idx) ==
  [Return(FindReset(t)) EXCEPT !.ret = found, !.ridx = idx]

\* the entry label of the chunk-level function a call searches with
Finder(op) ==
  CASE op \in {"find1", "claim", "claim_keep", "bfind1"} ->
         "mi_bchunk_try_find_and_clear"
    [] op \in {"find8", "bfind8"}  -> "mi_bchunk_try_find_and_clear8"
    [] op \in {"findX", "bfindX"}  -> "mi_bchunk_try_find_and_clearX"
    [] op \in {"findNX", "bfindNX"} -> "mi_bchunk_try_find_and_clearNX"
    [] op \in {"findN_", "bfindN_"} -> "mi_bchunk_try_find_and_clearN_"

\* the head of the inner loop (Y): call the visitor on the next chunk, or
\* end this iteration of the outer loop (X)
mi_bitmap_find_inner(t) ==
  IF t.y_bcount = 0
  THEN [t EXCEPT !.pc = "mi_bitmap_find_outer",
                 !.x_b = mi_bfield_clear_least_bit(t.x_b),
                 !.cmap_entry = 0, !.y_mask = 0, !.y_b = 0]
  ELSE LET b == mi_bfield_iterate_b(t.y_b, t.cmap_entry, t.y_mask)
           eidx == mi_bfield_find_least_bit(b).idx
       IN  [t EXCEPT !.y_bcount = t.y_bcount - 1, !.y_b = b,
                     !.chunk_idx = t.cmap_idx * MI_BFIELD_BITS + eidx,
                     !.pc = Finder(t.op), !.fi = 0, !.fpass = 0]

\* the visitor returned false: `_b = mi_bfield_clear_least_bit(_b)`, next
mi_bitmap_find_continue(t) ==
  mi_bitmap_find_inner([t EXCEPT !.y_b = mi_bfield_clear_least_bit(t.y_b)])

mi_bitmap_find(self) ==
  LET t == th[self]
      cmap_max_count == _mi_divide_up(mi_bitmap_chunk_count, MI_BFIELD_BITS)
      chunk_acc == chunk_max_accessed
      cmap_acc == chunk_acc \div MI_BFIELD_BITS
      cmap_acc_bits == 1 + (chunk_acc % MI_BFIELD_BITS)
      cmap_mask == mi_bfield_mask(cmap_max_count, 0)
      cmap_cycle == cmap_acc + 1
      x_mask == mi_bfield_cycle_mask(t.tseq, cmap_cycle)
  IN  /\ t.pc = "mi_bitmap_find"
      /\ th' = [th EXCEPT ![self] =
                  [t EXCEPT !.pc = "mi_bitmap_find_outer",
                            !.cmap_mask = cmap_mask, !.cmap_acc = cmap_acc,
                            !.cmap_acc_bits = cmap_acc_bits,
                            !.x_mask = x_mask,
                            !.x_bcount = mi_bfield_popcount(cmap_mask),
                            !.x_b = BitAnd(cmap_mask, x_mask)]]
      /\ UNCHANGED <<chunks, chunkmap, chunk_max_accessed, others>>

\* the head of the outer loop (X) and the load of the chunkmap entry
mi_bitmap_find_outer(self) ==
  LET t == th[self]
      b == mi_bfield_iterate_b(t.x_b, t.cmap_mask, t.x_mask)
      cmap_idx == mi_bfield_find_least_bit(b).idx
      cmap_entry == chunkmap[cmap_idx]
      cmap_entry_cycle == IF cmap_idx # t.cmap_acc THEN MI_BFIELD_BITS
                          ELSE t.cmap_acc_bits
      y_mask == mi_bfield_cycle_mask(t.tseq, cmap_entry_cycle)
  IN  /\ t.pc = "mi_bitmap_find_outer"
      /\ th' = [th EXCEPT ![self] =
                  IF t.x_bcount = 0 THEN FindReturn(t, FALSE, 0)
                  ELSE mi_bitmap_find_inner(
                         [t EXCEPT !.x_bcount = t.x_bcount - 1, !.x_b = b,
                                   !.cmap_idx = cmap_idx,
                                   !.cmap_entry = cmap_entry,
                                   !.y_mask = y_mask,
                                   !.y_bcount = mi_bfield_popcount(cmap_entry),
                                   !.y_b = BitAnd(cmap_entry, y_mask)])]
      /\ UNCHANGED <<chunks, chunkmap, chunk_max_accessed, others>>

(***************************************************************************)
(* The visitors: what follows the return of the chunk-level function.      *)
(* mi_bitmap_try_find_and_clear_visit: done, or help clearing the chunkmap.*)
(* mi_bitmap_try_find_and_claim_visit: call claim_fun on the cleared bit.  *)
(* A direct call of a chunk-level function returns to its caller.          *)
(***************************************************************************)
VisitReturn(t, found, cidx) ==
  LET t1 == [t EXCEPT !.fi = 0, !.fpass = 0, !.fcidx = 0, !.fb = 0,
                      !.fbshift = 0, !.fidx = 0, !.fj = 0, !.fm = 0,
                      !.a_res = FALSE, !.a_ac = FALSE, !.tx_res = FALSE]
  IN  IF t.op \in {"bfind1", "bfind8", "bfindX", "bfindNX", "bfindN_"}
      THEN [Return(t1) EXCEPT !.ret = found, !.ridx = IF found THEN cidx ELSE 0]
      ELSE IF t.op \in {"claim", "claim_keep"}
      THEN IF found
           THEN [t1 EXCEPT !.pc = "claim_fun", !.cidx = cidx,
                           !.ridx = t.chunk_idx * MI_BCHUNK_BITS + cidx]
           ELSE mi_bitmap_chunkmap_try_clear(
                  [t1 EXCEPT !.stk = <<"mi_bitmap_find_next">> \o t1.stk])
      ELSE IF found
           THEN FindReturn(t1, TRUE, t.chunk_idx * MI_BCHUNK_BITS + cidx)
           ELSE mi_bitmap_chunkmap_try_clear(
                  [t1 EXCEPT !.stk = <<"mi_bitmap_find_next">> \o t1.stk])

\* the visitor returned false after mi_bitmap_chunkmap_try_clear
mi_bitmap_find_next(self) ==
  LET t == th[self]
  IN  /\ t.pc = "mi_bitmap_find_next"
      /\ th' = [th EXCEPT ![self] =
                  mi_bitmap_find_continue([t EXCEPT !.ac_res = FALSE])]
      /\ UNCHANGED <<chunks, chunkmap, chunk_max_accessed, others>>

\* what claim_fun may do in a call of the given kind
ClaimFunReturns(op) ==
  IF op = "claim_keep" THEN {"keep_set"} ELSE {"claimed", "keep_set", "drop"}

\* (*claim_fun)(slice_index, ..., &keep_set): the caller's code; it claims
\* the slice, or refuses and asks to keep the bit set, or refuses and not
claim_fun(self) ==
  LET t0 == th[self]
  IN  /\ t0.pc = "claim_fun"
      /\ \E r \in ClaimFunReturns(t0.op) :
           LET t == [t0 EXCEPT !.visited = Append(t0.visited, <<t0.ridx, r>>)]
           IN  th' = [th EXCEPT ![self] =
                    CASE r = "claimed"  -> FindReturn(t, TRUE, t.ridx)
                      [] r = "keep_set" -> [t EXCEPT !.pc = "claim_restore"]
                      [] r = "drop"     ->
                           mi_bitmap_find_continue(
                             [t EXCEPT !.ridx = 0, !.cidx = 0,
                                       !.hold = t.hold \ {t.ridx}])]
      /\ UNCHANGED <<chunks, chunkmap, chunk_max_accessed, others>>

\* the variant of the restore that leaves the bit clear
claim_restore_none(self) ==
  LET t == th[self]
  IN  /\ t.pc = "claim_restore"
      /\ th' = [th EXCEPT ![self] =
                  mi_bitmap_find_continue(
                    [t EXCEPT !.ridx = 0, !.cidx = 0,
                              !.hold = t.hold \ {t.ridx}])]
      /\ UNCHANGED <<chunks, chunkmap, chunk_max_accessed, others>>

\* `const bool wasclear = mi_bchunk_set(&bitmap->chunks[chunk_idx], cidx)`
claim_restore(self) ==
  LET t == th[self]
      loc == ChunkLoc(t.chunk_idx, mi_bchunk_field(t.cidx))
      r == mi_bchunk_set(Load(loc), t.cidx)
  IN  /\ t.pc = "claim_restore"
      /\ Store(loc, r.new)
      /\ th' = [th EXCEPT ![self] =
                  mi_bitmap_find_continue(
                    [t EXCEPT !.ridx = 0, !.cidx = 0,
                              !.hold = t.hold \ {t.ridx},
                              !.wasclear = t.wasclear /\ r.res])]
      /\ UNCHANGED <<chunk_max_accessed, others>>

(***************************************************************************)
(* mi_bchunk_try_find_and_clear (the scalar code, MI_OPT_SIMD == 0):       *)
(* a pass over the fields that skips all-set fields, then a pass that      *)
(* does not.  mi_bchunk_try_find_and_clear_at loads the field and clears   *)
(* its least bit with mi_bfield_atomic_try_clear.                          *)
(***************************************************************************)
\* the next call of mi_bchunk_try_find_and_clear_at, or `return false`
mi_bchunk_try_find_and_clear_next(t) ==
  IF t.fi + 1 < MI_BCHUNK_FIELDS THEN [t EXCEPT !.fi = t.fi + 1, !.pc = Finder("find1")]
  ELSE IF t.fpass = 0 THEN [t EXCEPT !.fi = 0, !.fpass = 1, !.pc = Finder("find1")]
  ELSE VisitReturn(t, FALSE, 0)

\* a variant that takes the least bit of an all-ones field in the first pass
mi_bchunk_try_find_and_clear_at_allset(b, allow_allset) ==
  [try |-> mi_bfield_find_least_bit(b).found,
   cidx |-> mi_bfield_find_least_bit(b).idx]

\* the bit mi_bchunk_try_find_and_clear_at tries to clear in a field b
mi_bchunk_try_find_and_clear_at(b, allow_allset) ==
  IF ~allow_allset /\ BitNot(b) = 0 THEN [try |-> FALSE, cidx |-> 0]
  ELSE [try |-> mi_bfield_find_least_bit(b).found,
        cidx |-> mi_bfield_find_least_bit(b).idx]

mi_bchunk_try_find_and_clear(self) ==
  LET t == th[self]
      b == chunks[t.chunk_idx][t.fi]
      at == mi_bchunk_try_find_and_clear_at(b, t.fpass = 1)
  IN  /\ t.pc = "mi_bchunk_try_find_and_clear"
      /\ th' = [th EXCEPT ![self] =
                  IF at.try
                  THEN CasCall([t EXCEPT !.fcidx = at.cidx], "try_clear_mask",
                               ChunkLoc(t.chunk_idx, t.fi),
                               Shl(mi_bfield_one, at.cidx),
                               "mi_bchunk_try_find_and_clear_1")
                  ELSE mi_bchunk_try_find_and_clear_next(t)]
      /\ UNCHANGED <<chunks, chunkmap, chunk_max_accessed, others>>

\* a variant that reports the bit also when mi_bfield_atomic_try_clear failed
mi_bchunk_try_find_and_clear_1_always(self) ==
  LET t == th[self]
  IN  /\ t.pc = "mi_bchunk_try_find_and_clear_1"
      /\ th' = [th EXCEPT ![self] =
                  VisitReturn(t, TRUE, t.fi * MI_BFIELD_BITS + t.fcidx)]
      /\ UNCHANGED <<chunks, chunkmap, chunk_max_accessed, others>>

\* after mi_bfield_atomic_try_clear
mi_bchunk_try_find_and_clear_1(self) ==
  LET t == th[self]
  IN  /\ t.pc = "mi_bchunk_try_find_and_clear_1"
      /\ th' = [th EXCEPT ![self] =
                  IF t.a_res
                  THEN VisitReturn(t, TRUE, t.fi * MI_BFIELD_BITS + t.fcidx)
                  ELSE mi_bchunk_try_find_and_clear_next(t)]
      /\ UNCHANGED <<chunks, chunkmap, chunk_max_accessed, others>>

(***************************************************************************)
(* mi_bchunk_try_find_and_clear8 (scalar)                                  *)
(***************************************************************************)
MI_BFIELD_LO_BIT8 == mi_bfield_all_set \div 255

MI_BFIELD_HI_BIT8 == Shl(MI_BFIELD_LO_BIT8, 7)

\* the low bit of each byte is set if that byte of b is 0xFF
mi_bfield_has_set8(b) ==
  Shr(BitAnd(BSub(BitNot(b), MI_BFIELD_LO_BIT8), BitAnd(b, MI_BFIELD_HI_BIT8)), 7)

\* a variant that takes the least byte of an all-ones field in the first pass
mi_bchunk_try_find_and_clear8_at_allset(b, allow_all_set) ==
  [try |-> mi_bfield_find_least_bit(mi_bfield_has_set8(b)).found,
   idx |-> mi_bfield_find_least_bit(mi_bfield_has_set8(b)).idx]

mi_bchunk_try_find_and_clear8_at(b, allow_all_set) ==
  IF ~allow_all_set /\ BitNot(b) = 0 THEN [try |-> FALSE, idx |-> 0]
  ELSE [try |-> mi_bfield_find_least_bit(mi_bfield_has_set8(b)).found,
        idx |-> mi_bfield_find_least_bit(mi_bfield_has_set8(b)).idx]

mi_bchunk_try_find_and_clear8_next(t) ==
  IF t.fi + 1 < MI_BCHUNK_FIELDS THEN [t EXCEPT !.fi = t.fi + 1, !.pc = Finder("find8")]
  ELSE IF t.fpass = 0 THEN [t EXCEPT !.fi = 0, !.fpass = 1, !.pc = Finder("find8")]
  ELSE VisitReturn(t, FALSE, 0)

mi_bchunk_try_find_and_clear8(self) ==
  LET t == th[self]
      b == chunks[t.chunk_idx][t.fi]
      at == mi_bchunk_try_find_and_clear8_at(b, t.fpass = 1)
      byte_idx == at.idx \div 8
  IN  /\ t.pc = "mi_bchunk_try_find_and_clear8"
      /\ th' = [th EXCEPT ![self] =
                  IF at.try
                  THEN CasCall([t EXCEPT !.fcidx = at.idx], "try_clear_mask",
                               ChunkLoc(t.chunk_idx, t.fi),
                               Shl(255, byte_idx * 8),
                               "mi_bchunk_try_find_and_clear8_1")
                  ELSE mi_bchunk_try_find_and_clear8_next(t)]
      /\ UNCHANGED <<chunks, chunkmap, chunk_max_accessed, others>>

mi_bchunk_try_find_and_clear8_1(self) ==
  LET t == th[self]
  IN  /\ t.pc = "mi_bchunk_try_find_and_clear8_1"
      /\ th' = [th EXCEPT ![self] =
                  IF t.a_res
                  THEN VisitReturn(t, TRUE, t.fi * MI_BFIELD_BITS + t.fcidx)
                  ELSE mi_bchunk_try_find_and_clear8_next(t)]
      /\ UNCHANGED <<chunks, chunkmap, chunk_max_accessed, others>>

(***************************************************************************)
(* mi_bchunk_try_find_and_clearX (scalar): the load of a field and, when   *)
(* it is all set, mi_bfield_atomic_try_clearX.                             *)
(***************************************************************************)
mi_bchunk_try_find_and_clearX_next(t) ==
  IF t.fi + 1 < MI_BCHUNK_FIELDS THEN [t EXCEPT !.fi = t.fi + 1, !.pc = Finder("findX")]
  ELSE VisitReturn(t, FALSE, 0)

mi_bchunk_try_find_and_clearX(self) ==
  LET t == th[self]
      b == chunks[t.chunk_idx][t.fi]
  IN  /\ t.pc = "mi_bchunk_try_find_and_clearX"
      /\ th' = [th EXCEPT ![self] =
                  IF BitNot(b) = 0
                  THEN [t EXCEPT !.pc = "mi_bchunk_try_find_and_clearX_1"]
                  ELSE mi_bchunk_try_find_and_clearX_next(t)]
      /\ UNCHANGED <<chunks, chunkmap, chunk_max_accessed, others>>

mi_bchunk_try_find_and_clearX_1(self) ==
  LET t == th[self]
      loc == ChunkLoc(t.chunk_idx, t.fi)
      r == mi_bfield_atomic_try_clearX(Load(loc))
  IN  /\ t.pc = "mi_bchunk_try_find_and_clearX_1"
      /\ Store(loc, r.new)
      /\ th' = [th EXCEPT ![self] =
                  IF r.res
                  THEN VisitReturn(
                         [t EXCEPT !.hold = t.hold \cup MaskBits(loc, mi_bfield_all_set),
                                   !.lin = MaskBits(loc, mi_bfield_all_set)],
                         TRUE, t.fi * MI_BFIELD_BITS)
                  ELSE mi_bchunk_try_find_and_clearX_next(t)]
      /\ UNCHANGED <<chunk_max_accessed, others>>

(***************************************************************************)
(* mi_bchunk_try_find_and_clearNX: n consecutive set bits inside one field *)
(***************************************************************************)
\* a scan that gives up on the field at the first run that is too short
mi_bchunk_try_find_and_clearNX_scan_first(b, bshift, n) ==
  LET mask == mi_bfield_mask(n, 0)
      idx == mi_bfield_find_least_bit(b).idx
      b1 == Shr(b, idx)
      bshift1 == bshift + idx
  IN  IF /\ mi_bfield_find_least_bit(b).found
         /\ bshift1 + n <= MI_BFIELD_BITS
         /\ BitAnd(b1, mask) = mask
      THEN [match |-> TRUE, b |-> b1, bshift |-> bshift1, idx |-> idx]
      ELSE [match |-> FALSE, b |-> 0, bshift |-> 0, idx |-> 0]

\* the loop `while (mi_bfield_find_least_bit(b, &idx))` up to its next
\* match, or to its end
RECURSIVE mi_bchunk_try_find_and_clearNX_scan(_, _, _)
mi_bchunk_try_find_and_clearNX_scan(b, bshift, n) ==
  LET mask == mi_bfield_mask(n, 0)
      idx == mi_bfield_find_least_bit(b).idx
      b1 == Shr(b, idx)
      bshift1 == bshift + idx
      ones == mi_bfield_ctz(BitNot(b1))
  IN  IF ~mi_bfield_find_least_bit(b).found
      THEN [match |-> FALSE, b |-> 0, bshift |-> 0, idx |-> 0]
      ELSE IF bshift1 + n > MI_BFIELD_BITS
      THEN [match |-> FALSE, b |-> 0, bshift |-> 0, idx |-> 0]
      ELSE IF BitAnd(b1, mask) = mask
      THEN [match |-> TRUE, b |-> b1, bshift |-> bshift1, idx |-> idx]
      ELSE mi_bchunk_try_find_and_clearNX_scan(Shr(b1, ones), bshift1 + ones, n)

\* continue the scan of field t.fi from (b, bshift): try to clear a match,
\* or go to the next field, or return false
mi_bchunk_try_find_and_clearNX_from(t, b, bshift) ==
  LET r == mi_bchunk_try_find_and_clearNX_scan(b, bshift, t.n)
  IN  IF r.match
      THEN CasCall([t EXCEPT !.fb = r.b, !.fbshift = r.bshift, !.fidx = r.idx],
                   "try_clear_mask", ChunkLoc(t.chunk_idx, t.fi),
                   Shl(mi_bfield_mask(t.n, 0), r.bshift),
                   "mi_bchunk_try_find_and_clearNX_1")
      ELSE IF t.fi + 1 < MI_BCHUNK_FIELDS
      THEN [t EXCEPT !.fi = t.fi + 1, !.fb = 0, !.fbshift = 0, !.fidx = 0,
                     !.pc = Finder("findNX")]
      ELSE VisitReturn(t, FALSE, 0)

mi_bchunk_try_find_and_clearNX(self) ==
  LET t == th[self]
      b == chunks[t.chunk_idx][t.fi]
  IN  /\ t.pc = "mi_bchunk_try_find_and_clearNX"
      /\ th' = [th EXCEPT ![self] =
                  IF t.n = 0 \/ t.n > MI_BFIELD_BITS THEN VisitReturn(t, FALSE, 0)
                  ELSE mi_bchunk_try_find_and_clearNX_from(t, b, 0)]
      /\ UNCHANGED <<chunks, chunkmap, chunk_max_accessed, others>>

\* after mi_bfield_atomic_try_clear_mask: done, or reload b and try again
mi_bchunk_try_find_and_clearNX_1(self) ==
  LET t == th[self]
      bshift == t.fbshift - t.fidx
      b == Shr(chunks[t.chunk_idx][t.fi], bshift)
  IN  /\ t.pc = "mi_bchunk_try_find_and_clearNX_1"
      /\ th' = [th EXCEPT ![self] =
                  IF t.a_res
                  THEN VisitReturn(t, TRUE, t.fi * MI_BFIELD_BITS + t.fbshift)
                  ELSE mi_bchunk_try_find_and_clearNX_from(t, b, bshift)]
      /\ UNCHANGED <<chunks, chunkmap, chunk_max_accessed, others>>

(***************************************************************************)
(* mi_bchunk_try_find_and_clearN_: a run of n set bits that starts at a    *)
(* field boundary; a pre-scan of the fields, then mi_bchunk_try_clearN.    *)
(***************************************************************************)
\* a skip that also passes over the field after the one that broke the run
clearN_next_skips_one_more(t, i) ==
  IF i + 2 <= MI_BCHUNK_FIELDS - _mi_divide_up(t.n, MI_BFIELD_BITS)
  THEN [t EXCEPT !.fi = i + 2, !.fj = 0, !.fm = t.n, !.pc = Finder("findN_")]
  ELSE VisitReturn(t, FALSE, 0)

\* the `i++` of the for loop and its test
mi_bchunk_try_find_and_clearN_next(t, i) ==
  IF i + 1 <= MI_BCHUNK_FIELDS - _mi_divide_up(t.n, MI_BFIELD_BITS)
  THEN [t EXCEPT !.fi = i + 1, !.fj = 0, !.fm = t.n, !.pc = Finder("findN_")]
  ELSE VisitReturn(t, FALSE, 0)

\* a test that lets n = 0 pass
clearN_rejects_too_large(n) == n > MI_BCHUNK_BITS

\* `if (n == 0 || n > MI_BCHUNK_BITS) return false;`
mi_bchunk_try_find_and_clearN_rejects(n) == n = 0 \/ n > MI_BCHUNK_BITS

\* one iteration of the pre-scan: the load of field i+j
mi_bchunk_try_find_and_clearN_(self) ==
  LET t == th[self]
      field_count == _mi_divide_up(t.n, MI_BFIELD_BITS)
      m == IF t.fj = 0 THEN t.n ELSE t.fm
      b == chunks[t.chunk_idx][t.fi + t.fj]
      z == mi_bfield_find_least_bit(BitNot(b))
      m1 == IF z.found THEN m ELSE SizeSub(m, MI_BFIELD_BITS)
  IN  /\ t.pc = "mi_bchunk_try_find_and_clearN_"
      /\ th' = [th EXCEPT ![self] =
                  IF mi_bchunk_try_find_and_clearN_rejects(t.n)
                  THEN VisitReturn(t, FALSE, 0)
                  ELSE IF z.found /\ m > z.idx
                  THEN mi_bchunk_try_find_and_clearN_next(t, t.fi + t.fj)
                  ELSE IF t.fj + 1 < field_count
                  THEN [t EXCEPT !.fj = t.fj + 1, !.fm = m1]
                  ELSE mi_bchunk_try_xsetN(
                         [t EXCEPT !.fj = 0, !.fm = 0], MI_BIT_CLEAR,
                         t.fi * MI_BFIELD_BITS, t.n,
                         "mi_bchunk_try_find_and_clearN_1")]
      /\ UNCHANGED <<chunks, chunkmap, chunk_max_accessed, others>>

\* after mi_bchunk_try_clearN
mi_bchunk_try_find_and_clearN_1(self) ==
  LET t == th[self]
  IN  /\ t.pc = "mi_bchunk_try_find_and_clearN_1"
      /\ th' = [th EXCEPT ![self] =
                  IF t.tx_res
                  THEN VisitReturn(t, TRUE, t.fi * MI_BFIELD_BITS)
                  ELSE mi_bchunk_try_find_and_clearN_next(
                         [t EXCEPT !.tx_res = FALSE], t.fi)]
      /\ UNCHANGED <<chunks, chunkmap, chunk_max_accessed, others>>

(***************************************************************************)
(* mi_bitmap_clear_once_set -> mi_bfield_atomic_clear_once_set             *)
(***************************************************************************)
\* variants of the test: the bit is never seen clear, is always seen clear
is_clear_never(old, mask) == FALSE

is_clear_always(old, mask) == TRUE

\* the test `(old&mask) == 0` of the fast path and of the busy wait
clear_once_set_is_clear(old, mask) == BitAnd(old, mask) = 0

\* `mi_bfield_t old = mi_atomic_load_relaxed(b)` and the first test
mi_bitmap_clear_once_set(self) ==
  LET t == th[self]
      chunk_idx == t.idx \div MI_BCHUNK_BITS
      cidx == t.idx % MI_BCHUNK_BITS
      loc == ChunkLoc(chunk_idx, mi_bchunk_field(cidx))
      mask == Shl(mi_bfield_one, cidx % MI_BFIELD_BITS)
      old == Load(loc)
  IN  /\ t.pc = "mi_bitmap_clear_once_set"
      /\ th' = [th EXCEPT ![self] =
                  [t EXCEPT !.chunk_idx = chunk_idx, !.cidx = cidx,
                            !.a_loc = loc, !.a_mask = mask, !.a_old = old,
                            !.pc = IF clear_once_set_is_clear(old, mask)
                                   THEN "clear_once_set_acquire"
                                   ELSE "clear_once_set_cas"]]
      /\ UNCHANGED <<chunks, chunkmap, chunk_max_accessed, others>>

\* `old = mi_atomic_load_acquire(b)`, the statistics counter
clear_once_set_acquire(self) ==
  LET t == th[self]
      old == Load(t.a_loc)
  IN  /\ t.pc = "clear_once_set_acquire"
      /\ th' = [th EXCEPT ![self] =
                  [t EXCEPT !.a_old = old,
                            !.pc = IF clear_once_set_is_clear(old, t.a_mask)
                                   THEN "clear_once_set_wait"
                                   ELSE "clear_once_set_cas"]]
      /\ busy_wait' = IF clear_once_set_is_clear(old, t.a_mask) THEN busy_wait + 1
                      ELSE busy_wait
      /\ UNCHANGED <<chunks, chunkmap, chunk_max_accessed, chunk_count, menu, net>>

\* the busy wait: `mi_atomic_yield(); old = mi_atomic_load_acquire(b);`
clear_once_set_wait(self) ==
  LET t == th[self]
      old == Load(t.a_loc)
  IN  /\ t.pc = "clear_once_set_wait"
      /\ th' = [th EXCEPT ![self] =
                  [t EXCEPT !.a_old = old,
                            !.pc = IF clear_once_set_is_clear(old, t.a_mask)
                                   THEN "clear_once_set_wait"
                                   ELSE "clear_once_set_cas"]]
      /\ UNCHANGED <<chunks, chunkmap, chunk_max_accessed, others>>

\* the value mi_atomic_cas_weak_acq_rel(b, &old, old & ~mask) installs
mi_bfield_atomic_clear_once_set(old, mask) == BitAnd(old, BitNot(mask))

clear_once_set_cas(self) ==
  LET t == th[self]
      cur == Load(t.a_loc)
  IN  /\ t.pc = "clear_once_set_cas"
      /\ IF cur = t.a_old
         THEN /\ Store(t.a_loc, mi_bfield_atomic_clear_once_set(t.a_old, t.a_mask))
              /\ th' = [th EXCEPT ![self] =
                          [Return(t) EXCEPT !.a_old = 0, !.a_mask = 0,
                                            !.a_loc = ChunkLoc(0, 0)]]
         ELSE /\ th' = [th EXCEPT ![self] =
                          [t EXCEPT !.a_old = cur,
                                    !.pc = IF clear_once_set_is_clear(cur, t.a_mask)
                                           THEN "clear_once_set_acquire"
                                           ELSE "clear_once_set_cas"]]
              /\ UNCHANGED <<chunks, chunkmap>>
      /\ UNCHANGED <<chunk_max_accessed, others>>

(***************************************************************************)
(* mi_bitmap_unsafe_setN: not atomic, for a bitmap local to a thread.      *)
(***************************************************************************)
\* the first chunk: mi_bchunk_setN
mi_bitmap_unsafe_setN(self) ==
  LET t == th[self]
      chunk_idx == t.idx \div MI_BCHUNK_BITS
      cidx == t.idx % MI_BCHUNK_BITS
      m0 == MI_BCHUNK_BITS - cidx
      m == IF m0 > t.n THEN t.n ELSE m0
  IN  /\ t.pc = "mi_bitmap_unsafe_setN"
      /\ th' = [th EXCEPT ![self] =
                  mi_bchunk_xsetN([t EXCEPT !.chunk_idx = chunk_idx, !.cidx = cidx,
                                            !.un_n = t.n - m],
                                  MI_BIT_SET, cidx, m, "unsafe_setN_chunkmap")]
      /\ UNCHANGED <<chunks, chunkmap, chunk_max_accessed, others>>

\* mi_bitmap_chunkmap_set after the first and after the last chunk
unsafe_setN_chunkmap(self) ==
  LET t == th[self]
      t1 == [t EXCEPT !.xn_all = TRUE, !.xn_total = 0, !.xn_set = FALSE,
                      !.stk = <<IF t.un_last THEN "unsafe_setN_reset"
                                ELSE "unsafe_setN_memset">> \o t.stk]
  IN  /\ t.pc = "unsafe_setN_chunkmap"
      /\ th' = [th EXCEPT ![self] = mi_bitmap_chunkmap_set(t1)]
      /\ UNCHANGED <<chunks, chunkmap, chunk_max_accessed, others>>

\* chunk_idx++; the _mi_memset of the chunks in between
unsafe_setN_memset(self) ==
  LET t == th[self]
      chunk_idx == t.chunk_idx + 1
      mid_chunks == t.un_n \div MI_BCHUNK_BITS
      end_chunk == chunk_idx + mid_chunks
  IN  /\ t.pc = "unsafe_setN_memset"
      /\ chunks' = [i \in DOMAIN chunks |->
                      IF chunk_idx <= i /\ i < end_chunk
                      THEN [f \in 0..(MI_BCHUNK_FIELDS - 1) |-> mi_bfield_all_set]
                      ELSE chunks[i]]
      /\ th' = [th EXCEPT ![self] =
                  [t EXCEPT !.chunk_idx = chunk_idx, !.un_end = end_chunk,
                            !.un_n = t.un_n - mid_chunks * MI_BCHUNK_BITS,
                            !.pc = "unsafe_setN_mid"]]
      /\ UNCHANGED <<chunkmap, chunk_max_accessed, others>>

\* a test that looks at the start of the chunkmap field only
unsafe_setN_field_starts(chunk_idx, end_chunk) ==
  chunk_idx % MI_BFIELD_BITS = 0

\* `(chunk_idx % MI_BFIELD_BITS) == 0 && (chunk_idx + MI_BFIELD_BITS <= end_chunk)`
unsafe_setN_full_field(chunk_idx, end_chunk) ==
  /\ chunk_idx % MI_BFIELD_BITS = 0
  /\ chunk_idx + MI_BFIELD_BITS <= end_chunk

\* the loop over the chunks in between, then the last chunk
unsafe_setN_mid(self) ==
  LET t == th[self]
      full == unsafe_setN_full_field(t.chunk_idx, t.un_end)
      t1 == [t EXCEPT !.stk = <<"unsafe_setN_next">> \o t.stk]
  IN  /\ t.pc = "unsafe_setN_mid"
      /\ IF t.chunk_idx < t.un_end
         THEN IF full
              THEN /\ chunkmap' = [chunkmap EXCEPT
                                     ![t.chunk_idx \div MI_BFIELD_BITS] = mi_bfield_all_set]
                   /\ th' = [th EXCEPT ![self] = mi_bitmap_chunkmap_set(
                               [t1 EXCEPT !.chunk_idx = t.chunk_idx + MI_BFIELD_BITS - 1])]
              ELSE /\ th' = [th EXCEPT ![self] = mi_bitmap_chunkmap_set(t1)]
                   /\ UNCHANGED chunkmap
         ELSE /\ th' = [th EXCEPT ![self] =
                          IF t.un_n > 0
                          THEN mi_bchunk_xsetN([t EXCEPT !.un_last = TRUE, !.un_end = 0],
                                               MI_BIT_SET, 0, t.un_n,
                                               "unsafe_setN_chunkmap")
                          ELSE [t EXCEPT !.pc = "unsafe_setN_reset", !.un_end = 0]]
              /\ UNCHANGED chunkmap
      /\ UNCHANGED <<chunks, chunk_max_accessed, others>>

\* chunk_idx += MI_BFIELD_BITS, or chunk_idx++
unsafe_setN_next(self) ==
  LET t == th[self]
  IN  /\ t.pc = "unsafe_setN_next"
      /\ th' = [th EXCEPT ![self] =
                  [t EXCEPT !.chunk_idx = t.chunk_idx + 1, !.pc = "unsafe_setN_mid"]]
      /\ UNCHANGED <<chunks, chunkmap, chunk_max_accessed, others>>

\* the variant of the last step that leaves chunk_max_accessed as it is
unsafe_setN_no_reset(self) ==
  LET t == th[self]
  IN  /\ t.pc = "unsafe_setN_reset"
      /\ th' = [th EXCEPT ![self] =
                  [Return(t) EXCEPT !.un_n = 0, !.un_last = FALSE, !.un_end = 0,
                                    !.xn_all = TRUE, !.xn_total = 0,
                                    !.xn_set = FALSE]]
      /\ UNCHANGED <<chunks, chunkmap, chunk_max_accessed, others>>

\* mi_atomic_store_relaxed(&bitmap->chunk_max_accessed, 0)
unsafe_setN_reset(self) ==
  LET t == th[self]
  IN  /\ t.pc = "unsafe_setN_reset"
      /\ chunk_max_accessed' = 0
      /\ th' = [th EXCEPT ![self] =
                  [Return(t) EXCEPT !.un_n = 0, !.un_last = FALSE, !.un_end = 0,
                                    !.xn_all = TRUE, !.xn_total = 0,
                                    !.xn_set = FALSE]]
      /\ UNCHANGED <<chunks, chunkmap, others>>

(***************************************************************************)
(* mi_bitmap_is_xsetN(set, bitmap, idx, n): mi_bchunk_is_xsetN tests one   *)
(* mask on one field when n <= MI_BFIELD_BITS, and calls                   *)
(* mi_bchunk_is_xsetN_, which tests one mask per field, otherwise.         *)
(***************************************************************************)
mi_bfield_atomic_is_set_mask(b, mask) == BitAnd(b, mask) = mask

mi_bfield_atomic_is_clear_mask(b, mask) == BitAnd(b, mask) = 0

mi_bfield_atomic_is_xset_mask(set, b, mask) ==
  IF set THEN mi_bfield_atomic_is_set_mask(b, mask)
  ELSE mi_bfield_atomic_is_clear_mask(b, mask)

mi_bitmap_is_xsetN(self) ==
  LET t == th[self]
      chunk_idx == t.idx \div MI_BCHUNK_BITS
      cidx == t.idx % MI_BCHUNK_BITS
      n == IF cidx + t.n > MI_BCHUNK_BITS THEN MI_BCHUNK_BITS - cidx ELSE t.n
      field == cidx \div MI_BFIELD_BITS
      idx == cidx % MI_BFIELD_BITS
      t1 == [t EXCEPT !.chunk_idx = chunk_idx, !.cidx = cidx]
  IN  /\ t.pc = "mi_bitmap_is_xsetN"
      /\ th' = [th EXCEPT ![self] =
                  IF n <= MI_BFIELD_BITS
                  THEN Return([t1 EXCEPT !.ret =
                         mi_bfield_atomic_is_xset_mask(t.set,
                           Load(ChunkLoc(chunk_idx, field)),
                           mi_bfield_mask(n, idx))])
                  ELSE [t1 EXCEPT !.pc = "mi_bchunk_is_xsetN_",
                                  !.xn_field = field, !.xn_idx = idx,
                                  !.xn_n = n]]
      /\ UNCHANGED <<chunks, chunkmap, chunk_max_accessed, others>>

\* one round of the loop `while (n > 0)` of mi_bchunk_is_xsetN_
mi_bchunk_is_xsetN_(self) ==
  LET t == th[self]
      m0 == MI_BFIELD_BITS - t.xn_idx
      m == IF m0 > t.xn_n THEN t.xn_n ELSE m0
      mask == mi_bfield_mask(m, t.xn_idx)
      ok == mi_bfield_atomic_is_xset_mask(t.set,
              Load(ChunkLoc(t.chunk_idx, t.xn_field)), mask)
      t0 == [t EXCEPT !.xn_field = 0, !.xn_idx = 0, !.xn_n = 0]
  IN  /\ t.pc = "mi_bchunk_is_xsetN_"
      /\ th' = [th EXCEPT ![self] =
                  IF ~ok THEN Return([t0 EXCEPT !.ret = FALSE])
                  ELSE IF t.xn_n - m = 0 THEN Return([t0 EXCEPT !.ret = TRUE])
                  ELSE [t EXCEPT !.xn_field = t.xn_field + 1, !.xn_idx = 0,
                                 !.xn_n = t.xn_n - m]]
      /\ UNCHANGED <<chunks, chunkmap, chunk_max_accessed, others>>

(***************************************************************************)
(* mi_bitmap_bsr(bitmap, &idx): the chunkmap fields from the highest down; *)
(* in a field with a set bit, mi_bchunk_bsr on the chunk of its highest    *)
(* set bit, the fields of the chunk from the highest down.                 *)
(***************************************************************************)
\* one round of `for (size_t i = chunkmap_max; i > 0; )` with i as given
mi_bitmap_bsr_round(t, i) ==
  IF i = 0
  THEN Return([t EXCEPT !.ret = FALSE, !.fi = 0, !.fj = 0, !.cmap_idx = 0])
  ELSE LET cmap == Load(CmapLoc(i - 1))
           r == mi_bsr(cmap)
       IN  IF r.found
           THEN [t EXCEPT !.pc = "mi_bchunk_bsr", !.fi = i - 1,
                          !.cmap_idx = r.idx,
                          !.chunk_idx = (i - 1) * MI_BFIELD_BITS + r.idx,
                          !.fj = MI_BCHUNK_FIELDS]
           ELSE [t EXCEPT !.pc = "mi_bitmap_bsr_next", !.fi = i - 1]

mi_bitmap_bsr(self) ==
  LET t == th[self]
      chunkmap_max == _mi_divide_up(mi_bitmap_chunk_count, MI_BFIELD_BITS)
  IN  /\ t.pc = "mi_bitmap_bsr"
      /\ th' = [th EXCEPT ![self] = mi_bitmap_bsr_round(t, chunkmap_max)]
      /\ UNCHANGED <<chunks, chunkmap, chunk_max_accessed, others>>

mi_bitmap_bsr_next(self) ==
  LET t == th[self]
  IN  /\ t.pc = "mi_bitmap_bsr_next"
      /\ th' = [th EXCEPT ![self] = mi_bitmap_bsr_round(t, t.fi)]
      /\ UNCHANGED <<chunks, chunkmap, chunk_max_accessed, others>>

\* one round of `for (size_t i = MI_BCHUNK_FIELDS; i > 0; )` of
\* mi_bchunk_bsr, i in `fj`; when the chunk has no set bit mi_bitmap_bsr
\* goes on with its next chunkmap field
mi_bchunk_bsr(self) ==
  LET t == th[self]
      i == t.fj - 1
      b == Load(ChunkLoc(t.chunk_idx, i))
      r == mi_bsr(b)
      cidx == i * MI_BFIELD_BITS + r.idx
  IN  /\ t.pc = "mi_bchunk_bsr"
      /\ th' = [th EXCEPT ![self] =
                  IF r.found
                  THEN Return([t EXCEPT !.ret = TRUE,
                                 !.ridx = t.chunk_idx * MI_BCHUNK_BITS + cidx,
                                 !.fi = 0, !.fj = 0, !.cmap_idx = 0])
                  ELSE IF i = 0
                  THEN [t EXCEPT !.pc = "mi_bitmap_bsr_next", !.fj = 0]
                  ELSE [t EXCEPT !.fj = i]]
      /\ UNCHANGED <<chunks, chunkmap, chunk_max_accessed, others>>

(***************************************************************************)
(* _mi_bitmap_forall_set(bitmap, visit, arena, arg): for every chunkmap    *)
(* field, for every set bit of the value loaded from it, for every field   *)
(* of that chunk, for every set bit of the value loaded from it: visit.    *)
(***************************************************************************)
mi_bfield_foreach_bit(x) ==
  [found |-> mi_bfield_find_least_bit(x).found,
   idx   |-> mi_bfield_find_least_bit(x).idx,
   x     |-> mi_bfield_clear_least_bit(x)]

\* what a call of the visitor can return
VisitorReturns(op) == IF op = "forall_set_true" THEN {TRUE} ELSE BOOLEAN

ForallReturn(t, res) ==
  Return([t EXCEPT !.ret = res, !.fi = 0, !.fj = 0, !.fb = 0,
                   !.cmap_entry = 0, !.cmap_idx = 0])

\* `for (i ...)` reads the chunkmap field i, or returns true
mi_bitmap_forall_set_cmap(t, i) ==
  IF i >= _mi_divide_up(mi_bitmap_chunk_count, MI_BFIELD_BITS)
  THEN ForallReturn(t, TRUE)
  ELSE [t EXCEPT !.pc = "forall_set_chunk", !.fi = i,
                 !.cmap_entry = Load(CmapLoc(i))]

\* `for (j ...)` reads the field j of the chunk, or leaves the chunk
mi_bitmap_forall_set_field(t, j) ==
  IF j >= MI_BCHUNK_FIELDS
  THEN [t EXCEPT !.pc = "forall_set_chunk", !.fj = 0, !.fb = 0]
  ELSE [t EXCEPT !.pc = "forall_set_visit", !.fj = j,
                 !.fb = Load(ChunkLoc(t.chunk_idx, j))]

_mi_bitmap_forall_set(self) ==
  LET t == th[self]
  IN  /\ t.pc = "_mi_bitmap_forall_set"
      /\ th' = [th EXCEPT ![self] = mi_bitmap_forall_set_cmap(t, 0)]
      /\ UNCHANGED <<chunks, chunkmap, chunk_max_accessed, others>>

\* `while (mi_bfield_foreach_bit(&cmap_entry, &cmap_idx))`
forall_set_chunk(self) ==
  LET t == th[self]
      e == mi_bfield_foreach_bit(t.cmap_entry)
      t1 == [t EXCEPT !.cmap_entry = e.x, !.cmap_idx = e.idx,
                      !.chunk_idx = t.fi * MI_BFIELD_BITS + e.idx]
  IN  /\ t.pc = "forall_set_chunk"
      /\ th' = [th EXCEPT ![self] =
                  IF e.found THEN mi_bitmap_forall_set_field(t1, 0)
                  ELSE mi_bitmap_forall_set_cmap(t, t.fi + 1)]
      /\ UNCHANGED <<chunks, chunkmap, chunk_max_accessed, others>>

\* the variant of the visit that goes on after the visitor returned false
forall_set_visit_on(self) ==
  LET t == th[self]
      e == mi_bfield_foreach_bit(t.fb)
      idx == t.chunk_idx * MI_BCHUNK_BITS + t.fj * MI_BFIELD_BITS + e.idx
  IN  /\ t.pc = "forall_set_visit"
      /\ IF e.found
         THEN \E r \in VisitorReturns(t.op) :
                th' = [th EXCEPT ![self] =
                         [t EXCEPT !.fb = e.x,
                                   !.visited = Append(t.visited, <<idx, r>>)]]
         ELSE th' = [th EXCEPT ![self] =
                       mi_bitmap_forall_set_field(t, t.fj + 1)]
      /\ UNCHANGED <<chunks, chunkmap, chunk_max_accessed, others>>

\* `while (mi_bfield_foreach_bit(&b, &bidx))`: one call of the visitor
forall_set_visit(self) ==
  LET t == th[self]
      e == mi_bfield_foreach_bit(t.fb)
      base_idx == t.chunk_idx * MI_BCHUNK_BITS + t.fj * MI_BFIELD_BITS
      idx == base_idx + e.idx
  IN  /\ t.pc = "forall_set_visit"
      /\ IF e.found
         THEN \E r \in VisitorReturns(t.op) :
                LET t1 == [t EXCEPT !.fb = e.x,
                                    !.visited = Append(t.visited, <<idx, r>>)]
                IN  th' = [th EXCEPT ![self] =
                             IF r THEN t1 ELSE ForallReturn(t1, FALSE)]
         ELSE th' = [th EXCEPT ![self] =
                       mi_bitmap_forall_set_field(t, t.fj + 1)]
      /\ UNCHANGED <<chunks, chunkmap, chunk_max_accessed, others>>

(***************************************************************************)
(* A client that fills the bitmap with mi_bitmap_unsafe_setN(0, max_bits)  *)
(* and then calls mi_bitmap_try_find_and_clearX, each call with a tseq of  *)
(* its choice, as many times as the bitmap has fields and DrainExtra times *)
(* more.  It records, for each call, *pidx, the result and the value of    *)
(* the field at *pidx after the call.                                      *)
(***************************************************************************)
DrainExtra == 2

Tseqs == {0, 1, MI_BFIELD_BITS + 3}

call_fill_drain(self) ==
  LET t == th[self]
  IN  /\ t.pc = "call_fill_drain"
      /\ th' = [th EXCEPT ![self] =
                  [t EXCEPT !.pc = "mi_bitmap_unsafe_setN",
                            !.idx = 0, !.n = mi_bitmap_max_bits,
                            !.stk = <<"call_drain">> \o t.stk]]
      /\ UNCHANGED <<chunks, chunkmap, chunk_max_accessed, others>>

\* mi_bitmap_try_find_and_clearX(bitmap, tseq, &idx)
call_drain(self) ==
  LET t == th[self]
  IN  /\ t.pc = "call_drain"
      /\ \E q \in Tseqs :
           th' = [th EXCEPT ![self] =
                    [t EXCEPT !.pc = "mi_bitmap_find", !.op = "findX",
                              !.n = MI_BFIELD_BITS, !.tseq = q, !.idx = 0,
                              !.chunk_idx = 0, !.cidx = 0,
                              !.ret = FALSE, !.ridx = 0,
                              !.stk = <<"call_drain_1">> \o t.stk]]
      /\ UNCHANGED <<chunks, chunkmap, chunk_max_accessed, others>>

call_drain_1(self) ==
  LET t == th[self]
      b == Load(ChunkLoc(t.ridx \div MI_BCHUNK_BITS,
                         mi_bchunk_field(t.ridx % MI_BCHUNK_BITS)))
      v == Append(t.visited, <<t.ridx, t.ret, b>>)
      t1 == [t EXCEPT !.visited = v, !.op = "fill_drain", !.tseq = 0,
                      !.lin = {}]
  IN  /\ t.pc = "call_drain_1"
      /\ th' = [th EXCEPT ![self] =
                  IF Len(v) < chunk_count * MI_BCHUNK_FIELDS + DrainExtra
                  THEN [t1 EXCEPT !.pc = "call_drain"]
                  ELSE Return(t1)]
      /\ UNCHANGED <<chunks, chunkmap, chunk_max_accessed, others>>

(***************************************************************************)
(* A client that calls mi_bitmap_try_find_and_clear twice, each call with  *)
(* a tseq of its choice.  It records the set bits before the first call    *)
(* and, after each call, *pidx, the result and the set bits.               *)
(***************************************************************************)
call_find_pair(self) ==
  LET t == th[self]
  IN  /\ t.pc = "call_find_pair"
      /\ th' = [th EXCEPT ![self] =
                  [t EXCEPT !.pc = "call_find_pair_1",
                            !.visited = <<<<chunk_max_accessed, FALSE, SetBits>>>>]]
      /\ UNCHANGED <<chunks, chunkmap, chunk_max_accessed, others>>

\* mi_bitmap_try_find_and_clear(bitmap, tseq, &idx)
call_find_pair_1(self) ==
  LET t == th[self]
  IN  /\ t.pc = "call_find_pair_1"
      /\ \E q \in Tseqs :
           th' = [th EXCEPT ![self] =
                    [t EXCEPT !.pc = "mi_bitmap_find", !.op = "find1",
                              !.n = 1, !.tseq = q, !.idx = 0,
                              !.chunk_idx = 0, !.cidx = 0,
                              !.ret = FALSE, !.ridx = 0,
                              !.stk = <<"call_find_pair_2">> \o t.stk]]
      /\ UNCHANGED <<chunks, chunkmap, chunk_max_accessed, others>>

call_find_pair_2(self) ==
  LET t == th[self]
      v == Append(t.visited, <<t.ridx, t.ret, SetBits>>)
      t1 == [t EXCEPT !.visited = v, !.op = "find_pair", !.tseq = 0,
                      !.lin = {}]
  IN  /\ t.pc = "call_find_pair_2"
      /\ th' = [th EXCEPT ![self] =
                  IF Len(v) < 3 THEN [t1 EXCEPT !.pc = "call_find_pair_1"]
                  ELSE Return(t1)]
      /\ UNCHANGED <<chunks, chunkmap, chunk_max_accessed, others>>

\* mi_bitmap_xsetN dispatches on n
mi_bitmap_xsetN(n) ==
  IF n = 1 THEN "mi_bitmap_xset"
  ELSE IF n = 8 THEN "mi_bitmap_xset8"
  ELSE IF n = MI_BFIELD_BITS THEN "mi_bitmap_xsetX"
  ELSE "mi_bitmap_xsetN_"

(***************************************************************************)
(* Callers of mi_bitmap_xsetN(set, bitmap, idx, n, &already).  The caller  *)
(* owns the variable `already`; what it holds before the call is any value.*)
(***************************************************************************)
AlreadyBefore == {0, 1, MI_BCHUNK_BITS}

call_xsetN_already(self) ==
  LET t == th[self]
  IN  /\ t.pc = "call_xsetN_already"
      /\ \E a \in AlreadyBefore :
           th' = [th EXCEPT ![self] =
                    [t EXCEPT !.pc = mi_bitmap_xsetN(t.n), !.already = a,
                              !.pre = chunks, !.pre_cmap = chunkmap]]
      /\ UNCHANGED <<chunks, chunkmap, chunk_max_accessed, others>>

\* mi_bitmap_xsetN(SET, idx, n) followed by mi_bitmap_xsetN(CLEAR, idx, n)
call_xsetN_pair(self) ==
  LET t == th[self]
  IN  /\ t.pc = "call_xsetN_pair"
      /\ th' = [th EXCEPT ![self] =
                  [t EXCEPT !.pc = mi_bitmap_xsetN(t.n), !.set = MI_BIT_SET,
                            !.stk = <<"call_xsetN_pair_1">> \o t.stk,
                            !.pre = chunks, !.pre_cmap = chunkmap]]
      /\ UNCHANGED <<chunks, chunkmap, chunk_max_accessed, others>>

call_xsetN_pair_1(self) ==
  LET t == th[self]
  IN  /\ t.pc = "call_xsetN_pair_1"
      /\ th' = [th EXCEPT ![self] =
                  [t EXCEPT !.pc = mi_bitmap_xsetN(t.n), !.set = MI_BIT_CLEAR,
                            !.ret1 = t.ret, !.ret = FALSE]]
      /\ UNCHANGED <<chunks, chunkmap, chunk_max_accessed, others>>

(***************************************************************************)
(* Clients.  An idle thread starts one of the calls of its menu; a thread  *)
(* that holds claimed bits gives them back with mi_bitmap_xsetN(SET).      *)
(* When a call has returned (pc = "done") the client records the result.   *)
(***************************************************************************)
CallRec(op, set, idx, n, tseq) ==
  [op |-> op, set |-> set, idx |-> idx, n |-> n, tseq |-> tseq]

SetMin(S) == CHOOSE x \in S : \A y \in S : x <= y

Entry(c) ==
  CASE c.op = "xset"  -> "mi_bitmap_xset"
    [] c.op = "xsetN" -> mi_bitmap_xsetN(c.n)
    [] c.op = "try_xsetN" -> "call_try_xsetN"
    [] c.op = "xsetN_already" -> "call_xsetN_already"
    [] c.op = "xsetN_pair" -> "call_xsetN_pair"
    [] c.op = "is_xsetN" -> "mi_bitmap_is_xsetN"
    [] c.op = "bsr" -> "mi_bitmap_bsr"
    [] c.op = "fill_drain" -> "call_fill_drain"
    [] c.op = "find_pair" -> "call_find_pair"
    [] c.op \in {"bfind1", "bfind8", "bfindX", "bfindNX", "bfindN_"} ->
         Finder(c.op)
    [] c.op \in {"forall_set", "forall_set_true"} -> "_mi_bitmap_forall_set"
    [] c.op \in {"find1", "find8", "findX", "findNX", "findN_", "claim",
                 "claim_keep"} ->
         "mi_bitmap_find"
    [] c.op = "clear_once_set" -> "mi_bitmap_clear_once_set"
    [] c.op = "unsafe_setN" -> "mi_bitmap_unsafe_setN"
    [] OTHER -> "done"

Calls(self) ==
  IF th[self].hold = {} THEN menu[self]
  ELSE { CallRec("xsetN", MI_BIT_SET, SetMin(th[self].hold),
                 Cardinality(th[self].hold), 0) }

StartCall(self, c) ==
  LET t == th[self]
  IN  /\ t.pc = "idle"
      /\ t.ops < MaxOps
      /\ th' = [th EXCEPT ![self] =
                  [t EXCEPT !.pc = Entry(c), !.stk = <<"done">>,
                            !.ops = t.ops + 1,
                            !.op = c.op, !.set = c.set, !.idx = c.idx,
                            !.n = c.n, !.tseq = c.tseq,
                            !.ret = FALSE, !.ridx = 0,
                            !.snap = IF c.op \in {"try_xsetN", "bfind1", "bfind8",
                                                  "bfindNX", "bfindN_"}
                                     THEN chunks[c.idx \div MI_BCHUNK_BITS]
                                     ELSE ZeroChunk]]
      /\ UNCHANGED <<chunks, chunkmap, chunk_max_accessed, others>>

Start(self) == \E c \in Calls(self) : StartCall(self, c)

Net(k) == IF k \in DOMAIN net THEN net[k] ELSE 0

Finish(self) ==
  LET t == th[self]
      d == IF t.set THEN 1 ELSE -1
  IN  /\ t.pc = "done"
      /\ th' = [th EXCEPT ![self] =
                  [T0 EXCEPT !.ops = t.ops, !.hold = t.hold,
                             !.wasclear = t.wasclear]]
      /\ net' = IF t.op \in {"xset", "try_xsetN"} /\ t.ret
                THEN [k \in t.idx..(t.idx + t.n - 1) |-> Net(k) + d] @@ net
                ELSE net
      /\ UNCHANGED <<chunks, chunkmap, chunk_max_accessed, chunk_count,
                     busy_wait, menu>>

Quiescent == \A p \in Threads : th[p].pc = "idle"

\* a bitmap with the bits of S set, its chunkmap exact, and c chunks
BitsToField(S, c, f) ==
  LET base == c * MI_BCHUNK_BITS + f * MI_BFIELD_BITS
      RECURSIVE val(_)
      val(k) == IF k = MI_BFIELD_BITS THEN 0
                ELSE (IF base + k \in S THEN 2^k ELSE 0) + val(k + 1)
  IN  val(0)

ChunksOf(S, c) ==
  [i \in 0..(c - 1) |-> [f \in 0..(MI_BCHUNK_FIELDS - 1) |-> BitsToField(S, i, f)]]

ChunkmapOf(S) ==
  [f \in 0..(MI_BCHUNK_FIELDS - 1) |->
     BitsToField({ k \div MI_BCHUNK_BITS : k \in S }, 0, f)]

InitBitmap(S, c, mn) ==
  /\ chunk_count = c
  /\ chunks = ChunksOf(S, c)
  /\ chunkmap = ChunkmapOf(S)
  /\ chunk_max_accessed = 0
  /\ busy_wait = 0
  /\ th = [p \in Threads |-> T0]
  /\ menu = mn
  /\ net = <<>>

(***************************************************************************)
(* Spec10: threads call mi_bitmap_xset(SET) and mi_bitmap_xset(CLEAR) on   *)
(* two bits, one of them set at the start.                                 *)
(***************************************************************************)
InitBits10 == {3}

Menu10 ==
  { CallRec("xset", s, i, 1, 0) : s \in BOOLEAN, i \in {3, MI_BCHUNK_BITS} }

Init10 == InitBitmap(InitBits10, 2, [p \in Threads |-> Menu10])

ChunkmapStep(self) ==
  \/ chunkmap_set(self)
  \/ chunkmap_set_max(self)
  \/ chunkmap_set_max_cas(self)
  \/ mi_bchunk_all_are_clear(self)
  \/ chunkmap_try_clear_1(self)
  \/ chunkmap_try_clear_2(self)

Next10 ==
  \E self \in Threads :
    Start(self) \/ mi_bitmap_xset(self) \/ ChunkmapStep(self) \/ Finish(self)

Spec10 == Init10 /\ [][Next10]_vars

(***************************************************************************)
(* Spec1: threads call the five finders concurrently and set back what     *)
(* they claimed with mi_bitmap_xsetN(SET).                                 *)
(***************************************************************************)
Range(a, n) == a..(a + n - 1)

InitBits1 ==
  {3} \cup Range(MI_BCHUNK_BITS + MI_BFIELD_BITS, 2 * MI_BFIELD_BITS + 1)

Menu1 ==
  { CallRec("find1", FALSE, 0, 1, 0),
    CallRec("find8", FALSE, 0, 8, 0),
    CallRec("findX", FALSE, 0, MI_BFIELD_BITS, 1),
    CallRec("findNX", FALSE, 0, 3, 1),
    CallRec("findN_", FALSE, 0, 2 * MI_BFIELD_BITS + 1, 0) }

Init1 == InitBitmap(InitBits1, 2, [p \in Threads |-> Menu1])

CasStep(self) == cas_load(self) \/ cas_try(self)

FindStep(self) ==
  \/ mi_bitmap_find(self)
  \/ mi_bitmap_find_outer(self)
  \/ mi_bitmap_find_next(self)

Find1Step(self) ==
  \/ mi_bchunk_try_find_and_clear(self)
  \/ mi_bchunk_try_find_and_clear_1(self)

FindNStep(self) ==
  \/ mi_bchunk_try_find_and_clear8(self)
  \/ mi_bchunk_try_find_and_clear8_1(self)
  \/ mi_bchunk_try_find_and_clearX(self)
  \/ mi_bchunk_try_find_and_clearX_1(self)
  \/ mi_bchunk_try_find_and_clearNX(self)
  \/ mi_bchunk_try_find_and_clearNX_1(self)
  \/ mi_bchunk_try_find_and_clearN_(self)
  \/ mi_bchunk_try_find_and_clearN_1(self)

TryXsetNStep(self) ==
  \/ mi_bchunk_try_xsetN_first(self)
  \/ mi_bchunk_try_xsetN_mid(self)
  \/ mi_bchunk_try_xsetN_last(self)
  \/ mi_bchunk_try_xsetN_restore(self)

XsetNStep(self) ==
  \/ mi_bitmap_xset8(self)
  \/ mi_bitmap_xset8_1(self)
  \/ mi_bitmap_xsetX(self)
  \/ mi_bitmap_xsetN_(self)
  \/ mi_bitmap_xsetN_1(self)
  \/ mi_bchunk_xsetN_next(self)

Next1 ==
  \E self \in Threads :
    \/ Start(self)
    \/ FindStep(self) \/ Find1Step(self) \/ FindNStep(self)
    \/ TryXsetNStep(self) \/ CasStep(self)
    \/ mi_bitmap_xset(self) \/ XsetNStep(self) \/ ChunkmapStep(self)
    \/ Finish(self)

Spec1 == Init1 /\ [][Next1]_vars

FinderOps == {"find1", "find8", "findX", "findNX", "findN_"}

\* thread p is at the return of a finder that returned true with *pidx
Claimed(p) == th[p].pc = "done" /\ th[p].op \in FinderOps /\ th[p].ret

ClaimRange(p) == Range(th[p].ridx, th[p].n)

\* C1: mutual exclusion of claims.  The range a finder returns is held by
\* the calling thread until that thread sets it again; the ranges two
\* threads hold never overlap, and a held bit is clear: a bit can be claimed
\* a second time only after a set operation has set it again.
C1_MutualExclusion ==
  /\ \A p \in Threads : Claimed(p) => ClaimRange(p) \subseteq th[p].hold
  /\ \A p \in Threads : \A k \in th[p].hold : ~BitIsSet(k)
  /\ \A p, q \in Threads : p # q => th[p].hold \cap th[q].hold = {}

\* two different finders have returned true and both ranges are still held
C1_Witness ==
  /\ Claimed(1) /\ th[1].op = "findN_"
  /\ Claimed(2) /\ th[2].op = "find1"

\* C5: every finder that returns true with index k and run length n has one
\* atomic step that takes all bits of [k, k+n) from 1 to 0.
C5_OneAtomicStep ==
  \A p \in Threads : Claimed(p) => ClaimRange(p) \subseteq th[p].lin

(***************************************************************************)
(* Spec2: every thread repeats mi_bitmap_try_find_and_clear and then       *)
(* mi_bitmap_xset(SET) on the index it was given.                          *)
(***************************************************************************)
InitBits2 == {3, MI_BCHUNK_BITS + 20}

Menu2 == { CallRec("find1", FALSE, 0, 1, q) : q \in {0, 1} }

Init2 == InitBitmap(InitBits2, 2, [p \in Threads |-> Menu2])

Next2 ==
  \E self \in Threads :
    \/ Start(self)
    \/ FindStep(self) \/ Find1Step(self) \/ CasStep(self)
    \/ mi_bitmap_xset(self) \/ ChunkmapStep(self)
    \/ Finish(self)

Spec2 == Init2 /\ [][Next2]_vars

RECURSIVE HeldCount(_)
HeldCount(P) ==
  IF P = {} THEN 0
  ELSE LET p == CHOOSE x \in P : TRUE
       IN  Cardinality(th[p].hold) + HeldCount(P \ {p})

\* C2: the number of set bits plus the number of indices held by threads
\* equals the initial number of set bits, in every reachable state.
C2_Conservation ==
  Cardinality(SetBits) + HeldCount(Threads) = Cardinality(InitBits2)

\* one thread has set its index back and claimed no other, another holds one
C2_Witness ==
  \E p, q \in Threads :
    /\ th[p].op = "xsetN" /\ th[p].pc = "done" /\ th[p].hold = {}
    /\ th[q].hold # {} /\ Claimed(q)

(***************************************************************************)
(* Spec3: threads set and clear bits with mi_bitmap_xset and claim bits    *)
(* with mi_bitmap_try_find_and_clear, concurrently.                        *)
(***************************************************************************)
InitBits3 == {3}

Menu3 ==
  { CallRec("xset", s, i, 1, 0) : s \in BOOLEAN, i \in {3, MI_BCHUNK_BITS + 1} }
    \cup { CallRec("find1", FALSE, 0, 1, 0) }

Init3 == InitBitmap(InitBits3, 2, [p \in Threads |-> Menu3])

Next3 ==
  \E self \in Threads :
    \/ Start(self)
    \/ FindStep(self) \/ Find1Step(self) \/ CasStep(self)
    \/ mi_bitmap_xset(self) \/ ChunkmapStep(self)
    \/ Finish(self)

Spec3 == Init3 /\ [][Next3]_vars

AllChunks == 0..(chunk_count - 1)

\* the statement as claimed: in every state, a chunk with a set bit has its
\* chunkmap bit set
C3_EveryState == \A i \in AllChunks : ~ChunkIsClear(i) => CmapBitIsSet(i)

\* thread p has set a bit of chunk i and is about to set chunkmap bit i
InChunkmapSet(p, i) == th[p].chunk_idx = i /\ th[p].pc = "chunkmap_set"

\* thread p is in mi_bitmap_chunkmap_try_clear(i), between its clearing of
\* chunkmap bit i and the end of its second all-clear test
InChunkmapTryClear(p, i) ==
  /\ th[p].chunk_idx = i
  /\ \/ th[p].pc = "chunkmap_try_clear_2"
     \/ /\ th[p].pc = "mi_bchunk_all_are_clear"
        /\ Head(th[p].stk) = "chunkmap_try_clear_2"

\* C3: chunk i has a set bit while chunkmap bit i is 0 only in two windows:
\* a setter has written the chunk and not yet the chunkmap, or a thread is
\* inside mi_bitmap_chunkmap_try_clear(i) after clearing the chunkmap bit and
\* before its second test restores it.  With no operation in progress a
\* chunk with a set bit has its chunkmap bit set.
C3_OverApproximation ==
  \A i \in AllChunks :
    (~ChunkIsClear(i) /\ ~CmapBitIsSet(i)) =>
       \E p \in Threads : InChunkmapSet(p, i) \/ InChunkmapTryClear(p, i)

\* the window of mi_bitmap_chunkmap_try_clear is open: the chunk has a bit,
\* its setter has finished, and the chunkmap bit is not yet restored
C3_Witness ==
  \E i \in AllChunks :
    /\ ~ChunkIsClear(i) /\ ~CmapBitIsSet(i)
    /\ \E p \in Threads : InChunkmapTryClear(p, i)
    /\ \A p \in Threads : ~InChunkmapSet(p, i)

(***************************************************************************)
(* Claims about Spec10.                                                    *)
(***************************************************************************)
\* the calls mi_bitmap_xset(s, k) that have written the chunk, will return
\* true, and are not yet counted in `net`
InFlight(k, s) ==
  Cardinality({ p \in Threads :
                  /\ th[p].op = "xset" /\ th[p].idx = k /\ th[p].set = s
                  /\ th[p].pc \notin {"idle", "mi_bitmap_xset"}
                  /\ th[p].ret })

BitValue(k) == IF BitIsSet(k) THEN 1 ELSE 0

\* C10: mi_bitmap_xset returns true exactly when it changed the bit: in
\* every state the value of a bit is its initial value plus the SET calls
\* that returned true minus the CLEAR calls that returned true (so of
\* several calls in the same direction on one bit exactly one returns true),
\* and a call that returns false leaves the chunks as they were.
C10_TrueIffChanged ==
  \A k \in 0..(mi_bitmap_max_bits - 1) :
    BitValue(k) = (IF k \in InitBits10 THEN 1 ELSE 0) + Net(k)
                    + InFlight(k, TRUE) - InFlight(k, FALSE)

\* two concurrent SET calls on the same clear bit: one has returned true,
\* the other false
C10_Witness ==
  \E p, q \in Threads :
    /\ th[p].op = "xset" /\ th[p].set /\ th[p].idx = MI_BCHUNK_BITS
    /\ th[p].pc = "done" /\ th[p].ret
    /\ th[q].op = "xset" /\ th[q].set /\ th[q].idx = MI_BCHUNK_BITS
    /\ th[q].pc = "done" /\ ~th[q].ret
    /\ Net(MI_BCHUNK_BITS) = 0

(***************************************************************************)
(* Spec4: the public operations, one call at a time: a call starts when no *)
(* other call is in progress.                                              *)
(***************************************************************************)
InitBits4 == {3, MI_BFIELD_BITS + 4}

Menu4 ==
  { CallRec("xset", s, i, 1, 0) : s \in BOOLEAN, i \in {3, MI_BCHUNK_BITS + 1} }
    \cup { CallRec("xsetN", s, 8, 8, 0) : s \in BOOLEAN }
    \cup { CallRec("xsetN", s, MI_BFIELD_BITS, MI_BFIELD_BITS, 0) : s \in BOOLEAN }
    \cup { CallRec("xsetN", s, MI_BFIELD_BITS, 4, 0) : s \in BOOLEAN }
    \cup { CallRec("xsetN", s, MI_BFIELD_BITS, 2 * MI_BFIELD_BITS + 1, 0) : s \in BOOLEAN }
    \cup { CallRec("find1", FALSE, 0, 1, 0),
           CallRec("find8", FALSE, 0, 8, 0),
           CallRec("findX", FALSE, 0, MI_BFIELD_BITS, 0),
           CallRec("findNX", FALSE, 0, 3, 0),
           CallRec("findN_", FALSE, 0, 2 * MI_BFIELD_BITS + 1, 0),
           CallRec("claim", FALSE, 0, 1, 0),
           CallRec("clear_once_set", FALSE, 3, 1, 0),
           CallRec("unsafe_setN", TRUE, MI_BCHUNK_BITS - 4, 10, 0),
           CallRec("unsafe_setN", TRUE, 0, 2 * MI_BCHUNK_BITS, 0) }

Init4 == InitBitmap(InitBits4, 2, [p \in Threads |-> Menu4])

StartAlone(self) == Quiescent /\ Start(self)

ClaimStep(self) == claim_fun(self) \/ claim_restore(self)

ClearOnceSetStep(self) ==
  \/ mi_bitmap_clear_once_set(self)
  \/ clear_once_set_acquire(self)
  \/ clear_once_set_wait(self)
  \/ clear_once_set_cas(self)

UnsafeSetNStep(self) ==
  \/ mi_bitmap_unsafe_setN(self)
  \/ unsafe_setN_chunkmap(self)
  \/ unsafe_setN_memset(self)
  \/ unsafe_setN_mid(self)
  \/ unsafe_setN_next(self)
  \/ unsafe_setN_reset(self)

Next4 ==
  \E self \in Threads :
    \/ StartAlone(self)
    \/ mi_bitmap_xset(self) \/ XsetNStep(self) \/ ChunkmapStep(self)
    \/ CasStep(self)
    \/ FindStep(self) \/ Find1Step(self) \/ FindNStep(self)
    \/ mi_bchunk_try_xsetN_first(self)
    \/ mi_bchunk_try_xsetN_mid(self)
    \/ mi_bchunk_try_xsetN_last(self)
    \/ ClaimStep(self) \/ ClearOnceSetStep(self) \/ UnsafeSetNStep(self)
    \/ Finish(self)

Spec4 == Init4 /\ [][Next4]_vars

Cidx6 == MI_BFIELD_BITS - 6

N6 == 2 * MI_BFIELD_BITS + 12

InitSets6 ==
  { {}, {Cidx6 + 2}, {MI_BFIELD_BITS + 4}, {2 * MI_BFIELD_BITS + 3},
    {3 * MI_BFIELD_BITS + 2} }
  \cup { Range(Cidx6, N6) \ D :
           D \in { {}, {Cidx6 + 2}, {MI_BFIELD_BITS + 4},
                   {2 * MI_BFIELD_BITS + 3}, {3 * MI_BFIELD_BITS + 2} } }
  \cup { Range(0, MI_BCHUNK_BITS) }

Menu6 ==
  { CallRec("try_xsetN", s, Cidx6, N6, 0) : s \in BOOLEAN }
    \cup { CallRec("try_xsetN", s, MI_BFIELD_BITS + 2, 4, 0) : s \in BOOLEAN }

Init6 == \E S \in InitSets6 : InitBitmap(S, 1, [p \in Threads |-> Menu6])

TryXsetNCall(self) == call_try_xsetN(self) \/ call_try_xsetN_ret(self)

Next6 ==
  \E self \in Threads :
    \/ StartAlone(self)
    \/ TryXsetNCall(self) \/ TryXsetNStep(self) \/ CasStep(self)
    \/ Finish(self)

Spec6 == Init6 /\ [][Next6]_vars

\* thread p is at the return of its call of mi_bchunk_try_xsetN
TxDone(p) == th[p].op = "try_xsetN" /\ th[p].pc = "done"

\* bit k as it was when the call of thread p began
SnapBit(p, k) ==
  Shr(th[p].snap[(k % MI_BCHUNK_BITS) \div MI_BFIELD_BITS],
      k % MI_BFIELD_BITS) % 2 = 1

\* C6: with no other writer, mi_bchunk_try_xsetN is all-or-nothing.  If it
\* returns true every bit of the range had the opposite value and has the
\* target value, and no other bit changed; if it returns false some bit of
\* the range had the target value and every bit of the chunk is as before.
C6_AllOrNothing ==
  \A p \in Threads : TxDone(p) =>
    LET R == Range(th[p].idx, th[p].n)
    IN  IF th[p].ret
        THEN \A k \in 0..(mi_bitmap_max_bits - 1) :
               IF k \in R
               THEN SnapBit(p, k) # th[p].set /\ BitIsSet(k) = th[p].set
               ELSE BitIsSet(k) = SnapBit(p, k)
        ELSE /\ \E k \in R : SnapBit(p, k) = th[p].set
             /\ chunks[th[p].idx \div MI_BCHUNK_BITS] = th[p].snap

\* a SET over four fields has failed in its last field, after it wrote the
\* first three, and returned
C6_Witness ==
  \E p \in Threads :
    /\ TxDone(p) /\ ~th[p].ret /\ th[p].set /\ th[p].n = N6
    /\ th[p].snap = ChunksOf({3 * MI_BFIELD_BITS + 2}, 1)[0]

(***************************************************************************)
(* Spec7: concurrent calls of mi_bchunk_try_xsetN(SET) on overlapping      *)
(* ranges of a clear chunk; the ranges straddle field boundaries.          *)
(***************************************************************************)
Menu7(p) ==
  IF p = 1
  THEN { CallRec("try_xsetN", MI_BIT_SET, MI_BFIELD_BITS - 4, MI_BFIELD_BITS + 8, 0) }
  ELSE IF p = 2
  THEN { CallRec("try_xsetN", MI_BIT_SET, 2 * MI_BFIELD_BITS - 2, 4, 0) }
  ELSE { CallRec("try_xsetN", MI_BIT_SET, MI_BFIELD_BITS - 2, 4, 0) }

Init7 == InitBitmap({}, 1, [p \in Threads |-> Menu7(p)])

Next7 ==
  \E self \in Threads :
    \/ Start(self)
    \/ TryXsetNCall(self) \/ TryXsetNStep(self) \/ CasStep(self)
    \/ Finish(self)

Spec7 == Init7 /\ [][Next7]_vars

\* C7: of concurrent mi_bchunk_try_xsetN(SET) calls on overlapping ranges of
\* a clear chunk, the calls that returned true have pairwise disjoint
\* ranges; once calls have been made and all have returned, at least one
\* returned true and the set bits are the union of the ranges of the calls
\* that returned true.
C7_DisjointWinners ==
  /\ \A k \in 0..(mi_bitmap_max_bits - 1) : Net(k) <= 1
  /\ Quiescent =>
       /\ \A k \in 0..(mi_bitmap_max_bits - 1) : BitIsSet(k) <=> Net(k) = 1
       /\ (\E p \in Threads : th[p].ops > 0) => \E k \in DOMAIN net : net[k] = 1

\* all calls have returned; the call of thread 1 wrote its first field,
\* failed and restored it, the call of thread 2 returned true
C7_Witness ==
  /\ Quiescent
  /\ th[1].ops = MaxOps /\ th[2].ops > 0
  /\ SetBits = Range(2 * MI_BFIELD_BITS - 2, 4)

(***************************************************************************)
(* Spec8: threads call mi_bitmap_clear_once_set, mi_bitmap_xset(SET) and   *)
(* mi_bitmap_xset(CLEAR) on one bit, which starts clear.                   *)
(***************************************************************************)
Idx8 == MI_BCHUNK_BITS + 3

Menu8 ==
  { CallRec("clear_once_set", FALSE, Idx8, 1, 0),
    CallRec("xset", MI_BIT_SET, Idx8, 1, 0),
    CallRec("xset", MI_BIT_CLEAR, Idx8, 1, 0) }

Init8 == InitBitmap({}, 2, [p \in Threads |-> Menu8])

Next8 ==
  \E self \in Threads :
    \/ Start(self)
    \/ ClearOnceSetStep(self)
    \/ mi_bitmap_xset(self) \/ ChunkmapStep(self)
    \/ Finish(self)

Spec8 == Init8 /\ [][Next8]_vars

\* thread p is inside a call of mi_bitmap_clear_once_set
InClearOnceSet(p) ==
  th[p].op = "clear_once_set" /\ th[p].pc \notin {"idle", "done"}

\* C8: mi_bitmap_clear_once_set returns only by a step that finds the bit
\* set: the state before its return, which is a state of the call, has the
\* bit at 1.
C8_ReturnsAfterSet ==
  [][\A p \in Threads :
       (InClearOnceSet(p) /\ th'[p].pc = "done") => BitIsSet(th[p].idx)]_vars

\* a call that found the bit clear and waited has returned; the other
\* thread made the one call that set the bit
C8_Witness ==
  \E p, q \in Threads :
    /\ th[p].op = "clear_once_set" /\ th[p].pc = "done" /\ th[p].ops = 1
    /\ th[q].op = "xset" /\ th[q].set /\ th[q].ops = 1
    /\ busy_wait > 0

(***************************************************************************)
(* Spec9: thread 1 calls mi_bitmap_clear_once_set on a clear bit, the      *)
(* other threads call mi_bitmap_xset(SET) on it.  A thread that is inside  *)
(* a call is scheduled again and again (the wait loop yields).             *)
(***************************************************************************)
Menu9(p) ==
  IF p = 1 THEN { CallRec("clear_once_set", FALSE, Idx8, 1, 0) }
  ELSE { CallRec("xset", MI_BIT_SET, Idx8, 1, 0) }

Init9 == InitBitmap({}, 2, [p \in Threads |-> Menu9(p)])

Run9(self) ==
  \/ ClearOnceSetStep(self)
  \/ mi_bitmap_xset(self)
  \/ chunkmap_set(self)
  \/ chunkmap_set_max(self)
  \/ chunkmap_set_max_cas(self)
  \/ Finish(self)

Next9 == \E self \in Threads : Start(self) \/ Run9(self)

Spec9 == Init9 /\ [][Next9]_vars /\ \A p \in Threads : WF_vars(Run9(p))

\* C9: when thread 1 is inside mi_bitmap_clear_once_set and another thread
\* has set the bit, thread 1 eventually returns; the step by which it
\* returns finds the bit set and leaves it clear.
C9_Rendezvous ==
  /\ (InClearOnceSet(1) /\ BitIsSet(Idx8)) ~> (th[1].pc = "done")
  /\ [][(InClearOnceSet(1) /\ th'[1].pc = "done")
          => (BitIsSet(Idx8) /\ ~BitIsSet(Idx8)')]_vars

\* thread 1 found the bit clear, waited, and has returned after the set of
\* thread 2; the bit is clear
C9_Witness ==
  /\ th[1].op = "clear_once_set" /\ th[1].pc = "done" /\ th[1].ops = 1
  /\ th[2].op = "xset" /\ th[2].ops = 1
  /\ busy_wait > 0
  /\ ~BitIsSet(Idx8)

(***************************************************************************)
(* Spec11: one call at a time.  The clients call mi_bitmap_xsetN, alone or *)
(* as a SET/CLEAR pair, on ranges inside one chunk: one bit, an aligned    *)
(* and an unaligned byte, an aligned and an unaligned field, a short range *)
(* across a field boundary and a range over several fields.                *)
(***************************************************************************)
Ranges11 ==
  { <<3, 1>>, <<8, 8>>, <<5, 8>>,
    <<MI_BFIELD_BITS, MI_BFIELD_BITS>>,
    <<MI_BFIELD_BITS + 4, MI_BFIELD_BITS>>,
    <<MI_BFIELD_BITS - 2, 5>>,
    <<MI_BCHUNK_BITS + 2, 2 * MI_BFIELD_BITS + 3>> }

InitSets11 == { {}, {0, 2 * MI_BFIELD_BITS + 9} }

Menu11 ==
  { CallRec("xsetN_pair", MI_BIT_SET, r[1], r[2], 0) : r \in Ranges11 }
  \cup { CallRec("xsetN_already", s, r[1], r[2], 0) :
           s \in BOOLEAN, r \in Ranges11 }
  \cup { CallRec("is_xsetN", s, r[1], r[2], 0) :
           s \in BOOLEAN, r \in Ranges11 }

Init11 == \E S \in InitSets11 : InitBitmap(S, 2, [p \in Threads |-> Menu11])

XsetNCall(self) ==
  \/ call_xsetN_already(self)
  \/ call_xsetN_pair(self)
  \/ call_xsetN_pair_1(self)

Next11 ==
  \E self \in Threads :
    \/ StartAlone(self)
    \/ XsetNCall(self)
    \/ mi_bitmap_xset(self) \/ XsetNStep(self) \/ ChunkmapStep(self)
    \/ CasStep(self)
    \/ mi_bitmap_is_xsetN(self) \/ mi_bchunk_is_xsetN_(self)
    \/ Finish(self)

Spec11 == Init11 /\ [][Next11]_vars

\* thread p is at the return of a call of `op`
AtReturn(p, op) == th[p].pc = "done" /\ th[p].op = op

\* the range of the call of thread p
CallRange(p) == Range(th[p].idx, th[p].n)

\* bit k of the chunks cs
BitOf(cs, k) ==
  Shr(cs[k \div MI_BCHUNK_BITS][(k % MI_BCHUNK_BITS) \div MI_BFIELD_BITS],
      k % MI_BFIELD_BITS) % 2 = 1

\* the number of set bits of the chunks cs, from field j on, the fields
\* counted through the chunks
RECURSIVE PopcountFrom(_, _)
PopcountFrom(cs, j) ==
  IF j = chunk_count * MI_BCHUNK_FIELDS THEN 0
  ELSE mi_bfield_popcount(cs[j \div MI_BCHUNK_FIELDS][j % MI_BCHUNK_FIELDS])
       + PopcountFrom(cs, j + 1)

\* C11: when the range of a SET/CLEAR pair of mi_bitmap_xsetN was all 0
\* before the pair, both calls return true, and every bit of the chunks and
\* the total popcount are as before the pair.
C11_RoundTrip ==
  \A p \in Threads :
    (AtReturn(p, "xsetN_pair")
       /\ \A k \in CallRange(p) : ~BitOf(th[p].pre, k))
    => /\ th[p].ret1 /\ th[p].ret
       /\ chunks = th[p].pre
       /\ PopcountFrom(chunks, 0) = PopcountFrom(th[p].pre, 0)

\* the bits of the chunks in the target state of the call of thread p,
\* before the call
AlreadyXset(p) ==
  { k \in CallRange(p) : BitOf(th[p].pre, k) = th[p].set }

\* C12: at the return of mi_bitmap_xsetN(set, idx, n, &already), `already`
\* is the number of bits of the range that were in the target state before
\* the call, and it is 0 exactly when the call returns true.
C12_AlreadyCount ==
  \A p \in Threads :
    AtReturn(p, "xsetN_already")
    => /\ th[p].already = Cardinality(AlreadyXset(p))
       /\ (th[p].already = 0) <=> th[p].ret

\* mi_bitmap_xset(set, i) on the chunks cs: the chunks and the result
XsetOne(set, cs, i) ==
  LET c == i \div MI_BCHUNK_BITS
      cidx == i % MI_BCHUNK_BITS
      f == mi_bchunk_field(cidx)
      r == IF set THEN mi_bchunk_set(cs[c][f], cidx)
           ELSE mi_bchunk_clear(cs[c][f], cidx)
  IN  [chunks |-> [cs EXCEPT ![c][f] = r.new], res |-> r.res]

\* mi_bitmap_xset(set, i) for i = idx, .., idx + n - 1, the results and-ed
RECURSIVE XsetEach(_, _, _, _)
XsetEach(set, cs, idx, n) ==
  IF n = 0 THEN [chunks |-> cs, res |-> TRUE]
  ELSE LET one == XsetOne(set, cs, idx)
           rest == XsetEach(set, one.chunks, idx + 1, n - 1)
       IN  [chunks |-> rest.chunks, res |-> one.res /\ rest.res]

\* C13: mi_bitmap_xsetN(set, idx, n) leaves the chunks as mi_bitmap_xset on
\* each bit of the range does and returns the conjunction of their results;
\* the bits outside the range are as before the call.
C13_BitByBit ==
  \A p \in Threads :
    AtReturn(p, "xsetN_already")
    => LET ref == XsetEach(th[p].set, th[p].pre, th[p].idx, th[p].n)
       IN  /\ chunks = ref.chunks
           /\ th[p].ret = ref.res
           /\ \A k \in 0..(mi_bitmap_max_bits - 1) \ CallRange(p) :
                BitOf(chunks, k) = BitOf(th[p].pre, k)

\* C14: on a quiescent bitmap mi_bitmap_is_xsetN(set, idx, n) returns true
\* if and only if every bit of the range has the target value.
C14_IsXsetN ==
  \A p \in Threads :
    AtReturn(p, "is_xsetN")
    => (th[p].ret <=> \A k \in CallRange(p) : BitOf(chunks, k) = th[p].set)

(***************************************************************************)
(* Spec15: thread 1 calls mi_bitmap_try_find_and_claim, thread 2           *)
(* mi_bitmap_try_find_and_clear, concurrently; mi_bitmap_bsr and           *)
(* _mi_bitmap_forall_set are called when every thread is idle and run      *)
(* alone.                                                                  *)
(***************************************************************************)
InitBits15 == {3, MI_BFIELD_BITS + 1, MI_BCHUNK_BITS + 5}

QuietOps == {"bsr", "forall_set", "forall_set_true"}

Menu15(p) ==
  { CallRec(op, FALSE, 0, 1, 0) : op \in QuietOps }
  \cup { CallRec(IF p = 1 THEN "claim" ELSE "find1", FALSE, 0, 1, 0) }

Init15 == InitBitmap(InitBits15, 2, [p \in Threads |-> Menu15(p)])

\* a call of QuietOps starts when every thread is idle, and no call starts
\* while it runs
StartQuiet(self) ==
  \E c \in Calls(self) :
    /\ c.op \in QuietOps => Quiescent
    /\ \A q \in Threads : th[q].op \notin QuietOps
    /\ StartCall(self, c)

BsrStep(self) ==
  \/ mi_bitmap_bsr(self)
  \/ mi_bitmap_bsr_next(self)
  \/ mi_bchunk_bsr(self)

ForallSetStep(self) ==
  \/ _mi_bitmap_forall_set(self)
  \/ forall_set_chunk(self)
  \/ forall_set_visit(self)

Next15 ==
  \E self \in Threads :
    \/ StartQuiet(self)
    \/ FindStep(self) \/ Find1Step(self) \/ ClaimStep(self)
    \/ mi_bitmap_xset(self) \/ ChunkmapStep(self) \/ CasStep(self)
    \/ BsrStep(self) \/ ForallSetStep(self)
    \/ Finish(self)

Spec15 == Init15 /\ [][Next15]_vars

SetMax(S) == CHOOSE x \in S : \A y \in S : y <= x

\* C15: mi_bitmap_bsr, called on a quiescent bitmap, returns false exactly
\* when no bit is set, and otherwise true with *idx the highest set bit.
C15_Bsr ==
  \A p \in Threads :
    AtReturn(p, "bsr")
    => /\ ~th[p].ret <=> SetBits = {}
       /\ th[p].ret => th[p].ridx = SetMax(SetBits)

\* the indices the visitor of thread p was called with, in order
VisitedIdx(p) == [i \in 1..Len(th[p].visited) |-> th[p].visited[i][1]]

\* C16: _mi_bitmap_forall_set with a visitor that always returns true, on a
\* quiescent bitmap, returns true after calling the visitor with the set
\* bits, each once and none else, in strictly ascending order.
C16_ForallSetAll ==
  \A p \in Threads :
    AtReturn(p, "forall_set_true")
    => /\ th[p].ret
       /\ \A i \in 1..(Len(th[p].visited) - 1) :
            VisitedIdx(p)[i] < VisitedIdx(p)[i + 1]
       /\ { VisitedIdx(p)[i] : i \in 1..Len(th[p].visited) } = SetBits

\* thread p is inside a call of _mi_bitmap_forall_set
InForallSet(p) ==
  th[p].op \in {"forall_set", "forall_set_true"}
    /\ th[p].pc \notin {"idle", "done"}

\* C17: only the last call of the visitor can have returned false, and then
\* _mi_bitmap_forall_set has returned false; it returns true only when
\* every call of the visitor returned true; no step of it changes a chunk
\* or the chunkmap.
C17_EarlyStop ==
  /\ [](\A p \in Threads :
          th[p].op \in {"forall_set", "forall_set_true"} =>
          LET v == th[p].visited
          IN  /\ \A i \in 1..(Len(v) - 1) : v[i][2]
              /\ (Len(v) > 0 /\ ~v[Len(v)][2])
                   => (th[p].pc = "done" /\ ~th[p].ret)
              /\ (AtReturn(p, "forall_set") /\ th[p].ret)
                   => \A i \in 1..Len(v) : v[i][2])
  /\ [][\A p \in Threads :
          (InForallSet(p) /\ th'[p] # th[p])
          => (chunks' = chunks /\ chunkmap' = chunkmap)]_vars

\* the visitor returned true and then false; _mi_bitmap_forall_set has
\* returned false and a set bit above the last visited one was not visited
C17_Witness ==
  \E p \in Threads :
    /\ AtReturn(p, "forall_set") /\ ~th[p].ret
    /\ Len(th[p].visited) = 2
    /\ th[p].visited[1][2] /\ ~th[p].visited[2][2]
    /\ \E k \in SetBits : k > th[p].visited[2][1]

(***************************************************************************)
(* Spec18: one call at a time; the clients call                            *)
(* mi_bitmap_try_find_and_claim on a bitmap of three chunks with set bits  *)
(* in each, and set the bits they claimed again.                           *)
(***************************************************************************)
InitBits18 ==
  {3, 4, MI_BCHUNK_BITS + MI_BFIELD_BITS + 1, 2 * MI_BCHUNK_BITS + 5}

Menu18 == { CallRec("claim", FALSE, 0, 1, q) : q \in 0..2 }

Init18 == InitBitmap(InitBits18, 3, [p \in Threads |-> Menu18])

Next18 ==
  \E self \in Threads :
    \/ StartAlone(self)
    \/ FindStep(self) \/ Find1Step(self) \/ ClaimStep(self)
    \/ mi_bitmap_xset(self) \/ ChunkmapStep(self) \/ CasStep(self)
    \/ Finish(self)

Spec18 == Init18 /\ [][Next18]_vars

\* the calls of claim_fun of thread p that returned r
ClaimCalls(p, r) ==
  { th[p].visited[i][1] : i \in { j \in 1..Len(th[p].visited) :
                                    th[p].visited[j][2] = r } }

\* C18: with one call at a time, mi_bitmap_try_find_and_claim returns true
\* exactly when a call of claim_fun returned true, with *pidx that index
\* and its bit 0; a bit for which claim_fun returned false is 1 at the
\* return when keep_set was true and 0 when keep_set was false.
C18_Claim ==
  \A p \in Threads :
    AtReturn(p, "claim")
    => /\ th[p].ret <=> ClaimCalls(p, "claimed") # {}
       /\ th[p].ret => /\ ClaimCalls(p, "claimed") = {th[p].ridx}
                       /\ ~BitIsSet(th[p].ridx)
       /\ \A k \in ClaimCalls(p, "keep_set") : BitIsSet(k)
       /\ \A k \in ClaimCalls(p, "drop") : ~BitIsSet(k)

\* a call whose claim_fun returned false with keep_set, false without, and
\* then true, each for another bit
C18_Witness ==
  \E p \in Threads :
    /\ AtReturn(p, "claim") /\ th[p].ret
    /\ ClaimCalls(p, "keep_set") # {}
    /\ ClaimCalls(p, "drop") # {}

(***************************************************************************)
(* Spec19: one call at a time; the clients call mi_bitmap_unsafe_setN on a *)
(* zeroed bitmap of 2 * MI_BFIELD_BITS + 1 chunks: a range inside a field, *)
(* across two chunks, over whole chunks, over the whole bitmap, and one    *)
(* that covers the chunks of a whole chunkmap field.                       *)
(***************************************************************************)
ChunkCount19 == 2 * MI_BFIELD_BITS + 1

Ranges19 ==
  { <<5, 3>>,
    <<MI_BCHUNK_BITS - 4, 10>>,
    <<MI_BCHUNK_BITS, MI_BCHUNK_BITS>>,
    <<10, 3 * MI_BCHUNK_BITS>>,
    <<0, ChunkCount19 * MI_BCHUNK_BITS>>,
    <<MI_BFIELD_BITS * MI_BCHUNK_BITS - 4,
      4 + MI_BFIELD_BITS * MI_BCHUNK_BITS + 7>> }

Menu19 == { CallRec("unsafe_setN", MI_BIT_SET, r[1], r[2], 0) : r \in Ranges19 }

Init19 == InitBitmap({}, ChunkCount19, [p \in Threads |-> Menu19])

Next19 ==
  \E self \in Threads :
    \/ StartAlone(self)
    \/ UnsafeSetNStep(self)
    \/ mi_bchunk_xsetN_next(self) \/ CasStep(self)
    \/ chunkmap_set(self) \/ chunkmap_set_max(self)
    \/ chunkmap_set_max_cas(self)
    \/ Finish(self)

Spec19 == Init19 /\ [][Next19]_vars

\* thread p makes the first call of the behaviour: the bitmap was zeroed
\* when the call began
FirstCall(p) ==
  th[p].ops = 1 /\ \A q \in Threads \ {p} : th[q].ops = 0

\* the chunks that the range of the call of thread p intersects
CallChunks(p) ==
  (th[p].idx \div MI_BCHUNK_BITS)
    ..((th[p].idx + th[p].n - 1) \div MI_BCHUNK_BITS)

Menu20 == { CallRec("fill_drain", FALSE, 0, 0, 0) }

Init20 == \E c \in 1..3 : InitBitmap({}, c, [p \in Threads |-> Menu20])

Start20(self) ==
  /\ Quiescent
  /\ \E c \in menu[self] : StartCall(self, c)

FillDrainCall(self) ==
  \/ call_fill_drain(self)
  \/ call_drain(self)
  \/ call_drain_1(self)

Next20 ==
  \E self \in Threads :
    \/ Start20(self)
    \/ FillDrainCall(self)
    \/ UnsafeSetNStep(self)
    \/ mi_bchunk_xsetN_next(self) \/ CasStep(self)
    \/ FindStep(self)
    \/ mi_bchunk_try_find_and_clearX(self)
    \/ mi_bchunk_try_find_and_clearX_1(self)
    \/ ChunkmapStep(self)
    \/ Finish(self)

Spec20 == Init20 /\ [][Next20]_vars

\* C20: after mi_bitmap_unsafe_setN(0, max_bits) on a fresh bitmap, the
\* first chunk_count * MI_BCHUNK_FIELDS calls of
\* mi_bitmap_try_find_and_clearX return true, each with another multiple of
\* MI_BFIELD_BITS whose field is 0 after the call, and every later call
\* returns false.
C20_FillDrain ==
  \A p \in Threads :
    (AtReturn(p, "fill_drain") /\ FirstCall(p))
    => LET v == th[p].visited
           K == chunk_count * MI_BCHUNK_FIELDS
       IN  /\ Len(v) = K + DrainExtra
           /\ \A i \in 1..K :
                /\ v[i][2]
                /\ v[i][1] % MI_BFIELD_BITS = 0
                /\ v[i][1] < mi_bitmap_max_bits
                /\ v[i][3] = 0
           /\ \A i, j \in 1..K : i # j => v[i][1] # v[j][1]
           /\ \A i \in (K + 1)..Len(v) : ~v[i][2]

\* a bitmap of three chunks has been filled and emptied by calls with
\* different tseq, and the calls after that returned false
C20_Witness ==
  \E p \in Threads :
    /\ AtReturn(p, "fill_drain") /\ FirstCall(p)
    /\ chunk_count = 3
    /\ Len(th[p].visited) = 3 * MI_BCHUNK_FIELDS + DrainExtra
    /\ SetBits = {}
    /\ ~th[p].ret

(***************************************************************************)
(* Spec21: one call at a time on a bitmap of MI_BFIELD_BITS + 2 chunks     *)
(* (two chunkmap fields) that starts empty: bits are set with              *)
(* mi_bitmap_xset, mi_bitmap_xsetN and mi_bitmap_unsafe_setN, and a client *)
(* calls mi_bitmap_try_find_and_clear twice.                               *)
(***************************************************************************)
ChunkCount21 == MI_BFIELD_BITS + 2

Menu21 ==
  { CallRec("xset", MI_BIT_SET, 3, 1, 0),
    CallRec("xset", MI_BIT_SET, (MI_BFIELD_BITS + 1) * MI_BCHUNK_BITS + 5, 1, 0),
    CallRec("xset", MI_BIT_CLEAR, 3, 1, 0),
    CallRec("xsetN", MI_BIT_SET, 2 * MI_BCHUNK_BITS + 8, 8, 0),
    CallRec("xsetN", MI_BIT_SET, MI_BFIELD_BITS, MI_BFIELD_BITS, 0),
    CallRec("xsetN", MI_BIT_SET, MI_BCHUNK_BITS + MI_BFIELD_BITS - 2, 5, 0),
    CallRec("unsafe_setN", MI_BIT_SET, 4 * MI_BCHUNK_BITS - 1, MI_BCHUNK_BITS + 2, 0),
    CallRec("unsafe_setN", MI_BIT_SET, 2, 1, 0),
    CallRec("find_pair", FALSE, 0, 1, 0) }

Init21 == InitBitmap({}, ChunkCount21, [p \in Threads |-> Menu21])

FindPairCall(self) ==
  \/ call_find_pair(self)
  \/ call_find_pair_1(self)
  \/ call_find_pair_2(self)

Next21 ==
  \E self \in Threads :
    \/ Start20(self)
    \/ FindPairCall(self)
    \/ mi_bitmap_xset(self) \/ XsetNStep(self)
    \/ UnsafeSetNStep(self)
    \/ ChunkmapStep(self) \/ CasStep(self)
    \/ FindStep(self) \/ Find1Step(self)
    \/ Finish(self)

Spec21 == Init21 /\ [][Next21]_vars

N22 ==
  {0, MI_BFIELD_BITS + 4, 2 * MI_BFIELD_BITS + 1, MI_BCHUNK_BITS - 1,
   MI_BCHUNK_BITS, MI_BCHUNK_BITS + 1, 2 * MI_BCHUNK_BITS}

InitSets22 ==
  { {},
    0..(MI_BCHUNK_BITS - 1),
    0..(MI_BCHUNK_BITS - 2),
    1..(MI_BCHUNK_BITS - 1),
    MI_BFIELD_BITS..(MI_BCHUNK_BITS - 1),
    (0..(MI_BCHUNK_BITS - 1)) \ {2 * MI_BFIELD_BITS + 3} }

Menu22 == { CallRec("bfindN_", FALSE, 0, n, 0) : n \in N22 }

Init22 ==
  \E S \in InitSets22 : InitBitmap(S, 1, [p \in Threads |-> Menu22])

Next22 ==
  \E self \in Threads :
    \/ Start20(self)
    \/ mi_bchunk_try_find_and_clearN_(self)
    \/ mi_bchunk_try_find_and_clearN_1(self)
    \/ mi_bchunk_try_xsetN_first(self)
    \/ mi_bchunk_try_xsetN_mid(self)
    \/ mi_bchunk_try_xsetN_last(self)
    \/ CasStep(self)
    \/ Finish(self)

Spec22 == Init22 /\ [][Next22]_vars

FullChunk == [f \in 0..(MI_BCHUNK_FIELDS - 1) |-> mi_bfield_all_set]

\* C22: mi_bchunk_try_find_and_clearN_ returns false and leaves the chunk
\* as it was when n = 0 or n > MI_BCHUNK_BITS; with n = MI_BCHUNK_BITS on a
\* chunk with all bits set it returns true with index 0 and leaves the
\* chunk all zero; a range it returns ends inside the chunk.
C22_Bounds ==
  \A p \in Threads :
    AtReturn(p, "bfindN_")
    => LET t == th[p]
       IN  /\ (t.n = 0 \/ t.n > MI_BCHUNK_BITS)
                => (~t.ret /\ chunks[0] = t.snap)
           /\ (t.n = MI_BCHUNK_BITS /\ t.snap = FullChunk)
                => (t.ret /\ t.ridx = 0 /\ chunks[0] = ZeroChunk)
           /\ t.ret => t.ridx + t.n <= MI_BCHUNK_BITS

\* a call with n = MI_BCHUNK_BITS has emptied a full chunk
C22_Witness ==
  \E p \in Threads :
    /\ AtReturn(p, "bfindN_")
    /\ th[p].n = MI_BCHUNK_BITS /\ th[p].snap = FullChunk
    /\ th[p].ret /\ chunks[0] = ZeroChunk

(***************************************************************************)
(* Spec23: threads set and clear bits of three chunks with mi_bitmap_xset  *)
(* and claim bits with mi_bitmap_try_find_and_clear, concurrently.         *)
(***************************************************************************)
InitBits23 == {3}

Menu23 ==
  { CallRec("xset", MI_BIT_SET, MI_BCHUNK_BITS + 1, 1, 0),
    CallRec("xset", MI_BIT_SET, 2 * MI_BCHUNK_BITS + 1, 1, 0),
    CallRec("xset", MI_BIT_CLEAR, 2 * MI_BCHUNK_BITS + 1, 1, 0),
    CallRec("find1", FALSE, 0, 1, 0),
    CallRec("find1", FALSE, 0, 1, 1) }

Init23 == InitBitmap(InitBits23, 3, [p \in Threads |-> Menu23])

Next23 ==
  \E self \in Threads :
    \/ Start(self)
    \/ FindStep(self) \/ Find1Step(self) \/ CasStep(self)
    \/ mi_bitmap_xset(self) \/ ChunkmapStep(self)
    \/ Finish(self)

Spec23 == Init23 /\ [][Next23]_vars

\* C23: chunk_max_accessed is always below chunk_count; a step changes it
\* only to a larger value, and that step is the compare-and-swap of
\* mi_bitmap_chunkmap_set_max by a thread whose oldmax is the value before
\* the step and whose chunk_idx is the value after it.
C23_MaxAccessed ==
  /\ [](chunk_max_accessed < chunk_count)
  /\ [][chunk_max_accessed' # chunk_max_accessed =>
          /\ chunk_max_accessed' > chunk_max_accessed
          /\ \E p \in Threads :
               /\ th[p].pc = "chunkmap_set_max_cas"
               /\ th'[p].pc # "chunkmap_set_max_cas"
               /\ th[p].oldmax = chunk_max_accessed
               /\ th[p].chunk_idx = chunk_max_accessed']_vars

\* a compare-and-swap to chunk 2 has failed against a concurrent one to
\* chunk 1: the calls have returned, chunk 2 holds a bit, and
\* chunk_max_accessed is 1
C23_Witness ==
  /\ Quiescent
  /\ chunk_max_accessed = 1
  /\ ~ChunkIsClear(2)

(***************************************************************************)
(* Spec24: threads call mi_bitmap_xset, mi_bitmap_xsetN and the finders    *)
(* that clear inside one field, concurrently and in any order.  Chunk 0    *)
(* starts with its first field set, chunk 1 with one byte set.             *)
(***************************************************************************)
InitBits24 == Range(0, MI_BFIELD_BITS) \cup Range(MI_BCHUNK_BITS + 8, 8)

Menu24 ==
  { CallRec("find1", FALSE, 0, 1, 0),
    CallRec("find8", FALSE, 0, 8, 0),
    CallRec("findX", FALSE, 0, MI_BFIELD_BITS, 0),
    CallRec("findNX", FALSE, 0, 3, 0),
    CallRec("xset", MI_BIT_SET, MI_BCHUNK_BITS + 3, 1, 0),
    CallRec("xsetN", MI_BIT_SET, MI_BFIELD_BITS - 2, 5, 0) }

Init24 == InitBitmap(InitBits24, 2, [p \in Threads |-> Menu24])

StartAny(self) == \E c \in menu[self] : StartCall(self, c)

Next24 ==
  \E self \in Threads :
    \/ StartAny(self)
    \/ FindStep(self) \/ Find1Step(self)
    \/ mi_bchunk_try_find_and_clear8(self)
    \/ mi_bchunk_try_find_and_clear8_1(self)
    \/ mi_bchunk_try_find_and_clearX(self)
    \/ mi_bchunk_try_find_and_clearX_1(self)
    \/ mi_bchunk_try_find_and_clearNX(self)
    \/ mi_bchunk_try_find_and_clearNX_1(self)
    \/ CasStep(self)
    \/ mi_bitmap_xset(self)
    \/ mi_bitmap_xsetN_(self)
    \/ mi_bitmap_xsetN_1(self)
    \/ mi_bchunk_xsetN_next(self)
    \/ ChunkmapStep(self)
    \/ Finish(self)

Spec24 == Init24 /\ [][Next24]_vars

\* C24: under concurrent mi_bitmap_xset, mi_bitmap_xsetN and single-field
\* finders, whenever no call is in progress a chunk with a set bit has its
\* chunkmap bit set.
C24_QuiescentCover ==
  Quiescent => \A i \in AllChunks : ~ChunkIsClear(i) => CmapBitIsSet(i)

\* the race of mi_bitmap_chunkmap_try_clear: a finder has emptied chunk 0, a
\* setter has set a bit of chunk 0 and then chunkmap bit 0 and has returned,
\* and the other thread, inside mi_bitmap_chunkmap_try_clear(0), has cleared
\* chunkmap bit 0 after that and found the chunk not clear at its re-check
C24_Witness ==
  \E p \in Threads :
    /\ th[p].pc = "chunkmap_try_clear_2" /\ th[p].chunk_idx = 0
    /\ ~th[p].ac_res
    /\ ~ChunkIsClear(0) /\ ~CmapBitIsSet(0)
    /\ \A q \in Threads \ {p} : th[q].pc = "idle" /\ th[q].ops > 0

(***************************************************************************)
(* Spec25: threads call mi_bitmap_try_find_and_claim concurrently, with a  *)
(* claim_fun that always returns false with keep_set = true.  One bit is   *)
(* set in each of the two chunks.                                          *)
(***************************************************************************)
InitBits25 == {3, MI_BCHUNK_BITS + 5}

Menu25 == { CallRec("claim_keep", FALSE, 0, 1, q) : q \in {0, 1} }

Init25 == InitBitmap(InitBits25, 2, [p \in Threads |-> Menu25])

Next25 ==
  \E self \in Threads :
    \/ StartAny(self)
    \/ FindStep(self) \/ Find1Step(self) \/ ClaimStep(self)
    \/ CasStep(self)
    \/ mi_bchunk_all_are_clear(self)
    \/ chunkmap_try_clear_1(self)
    \/ chunkmap_try_clear_2(self)
    \/ chunkmap_set_max(self)
    \/ chunkmap_set_max_cas(self)
    \/ Finish(self)

Spec25 == Init25 /\ [][Next25]_vars

\* C25: under concurrent mi_bitmap_try_find_and_claim calls whose claim_fun
\* returns false with keep_set = true, whenever no call is in progress a
\* chunk with a set bit has its chunkmap bit set.
C25_ClaimCover ==
  Quiescent => \A i \in AllChunks : ~ChunkIsClear(i) => CmapBitIsSet(i)

(***************************************************************************)
(* Spec26: threads call mi_bitmap_try_find_and_clearN_ for a run over      *)
(* three fields and mi_bitmap_try_find_and_clear, concurrently.  Chunk 1   *)
(* starts with exactly one such run set.                                   *)
(***************************************************************************)
InitBits26 == Range(MI_BCHUNK_BITS + MI_BFIELD_BITS, 2 * MI_BFIELD_BITS + 1)

Menu26 ==
  { CallRec("findN_", FALSE, 0, 2 * MI_BFIELD_BITS + 1, 0),
    CallRec("find1", FALSE, 0, 1, 0) }

Init26 == InitBitmap(InitBits26, 2, [p \in Threads |-> Menu26])

Next26 ==
  \E self \in Threads :
    \/ StartAny(self)
    \/ FindStep(self) \/ Find1Step(self)
    \/ mi_bchunk_try_find_and_clearN_(self)
    \/ mi_bchunk_try_find_and_clearN_1(self)
    \/ TryXsetNStep(self) \/ CasStep(self)
    \/ mi_bchunk_all_are_clear(self)
    \/ chunkmap_try_clear_1(self)
    \/ chunkmap_try_clear_2(self)
    \/ chunkmap_set_max(self)
    \/ chunkmap_set_max_cas(self)
    \/ Finish(self)

Spec26 == Init26 /\ [][Next26]_vars

\* C26: under concurrent mi_bitmap_try_find_and_clearN_ calls for runs over
\* several fields and other finders, whenever no call is in progress a
\* chunk with a set bit has its chunkmap bit set.
C26_RollbackCover ==
  Quiescent => \A i \in AllChunks : ~ChunkIsClear(i) => CmapBitIsSet(i)

(***************************************************************************)
(* Spec27: thread 1 calls mi_bitmap_try_find_and_clearN_ for the run set   *)
(* in chunk 1 (three fields); the other threads call mi_bitmap_xset(CLEAR) *)
(* on two bits of that run.  No call sets a bit.  A thread makes each call *)
(* of its menu once: the calls that left the menu are the calls made.      *)
(***************************************************************************)
ClearIdx27 ==
  { MI_BCHUNK_BITS + MI_BFIELD_BITS + 4, MI_BCHUNK_BITS + 3 * MI_BFIELD_BITS }

Menu27(p) ==
  IF p = 1 THEN { CallRec("findN_", FALSE, 0, 2 * MI_BFIELD_BITS + 1, 0) }
  ELSE { CallRec("xset", MI_BIT_CLEAR, i, 1, 0) : i \in ClearIdx27 }

Init27 == InitBitmap(InitBits26, 2, [p \in Threads |-> Menu27(p)])

StartOnce(self) ==
  \E c \in menu[self] :
    LET t == th[self]
    IN  /\ t.pc = "idle"
        /\ t.ops < MaxOps
        /\ th' = [th EXCEPT ![self] =
                    [t EXCEPT !.pc = Entry(c), !.stk = <<"done">>,
                              !.ops = t.ops + 1,
                              !.op = c.op, !.set = c.set, !.idx = c.idx,
                              !.n = c.n, !.tseq = c.tseq]]
        /\ menu' = [menu EXCEPT ![self] = menu[self] \ {c}]
        /\ UNCHANGED <<chunks, chunkmap, chunk_max_accessed, chunk_count,
                       busy_wait, net>>

Next27 ==
  \E self \in Threads :
    \/ StartOnce(self)
    \/ FindStep(self)
    \/ mi_bchunk_try_find_and_clearN_(self)
    \/ mi_bchunk_try_find_and_clearN_1(self)
    \/ TryXsetNStep(self) \/ CasStep(self)
    \/ mi_bitmap_xset(self)
    \/ mi_bchunk_all_are_clear(self)
    \/ chunkmap_try_clear_1(self)
    \/ chunkmap_try_clear_2(self)
    \/ chunkmap_set_max(self)
    \/ chunkmap_set_max_cas(self)
    \/ Finish(self)

Spec27 == Init27 /\ [][Next27]_vars

\* the calls thread p has made
CallsMade27(p) == Menu27(p) \ menu[p]

\* C27: no call sets a bit, so when no call is in progress every bit on
\* which a mi_bitmap_xset(CLEAR) was made is 0, also when that call
\* overlapped a mi_bchunk_try_xsetN(CLEAR) of mi_bchunk_try_find_and_clearN_
\* that failed and rolled back.
C27_ClearStays ==
  Quiescent =>
    \A p \in Threads : \A c \in CallsMade27(p) :
      (c.op = "xset" /\ ~c.set) => ~BitIsSet(c.idx)

(***************************************************************************)
(* Spec28: every thread calls mi_bitmap_clear_once_set on one bit, which   *)
(* starts clear, and thread 1 also calls mi_bitmap_xset(SET) on it, once,  *)
(* before or after its own mi_bitmap_clear_once_set: the bit is set once   *)
(* and there are more calls of mi_bitmap_clear_once_set than that.  A      *)
(* thread that is inside a call is scheduled again and again.              *)
(***************************************************************************)
Menu28(p) ==
  { CallRec("clear_once_set", FALSE, Idx8, 1, 0) }
    \cup (IF p = 1 THEN { CallRec("xset", MI_BIT_SET, Idx8, 1, 0) } ELSE {})

Init28 == InitBitmap({}, 2, [p \in Threads |-> Menu28(p)])

Run28(self) ==
  \/ ClearOnceSetStep(self)
  \/ mi_bitmap_xset(self)
  \/ chunkmap_set(self)
  \/ chunkmap_set_max(self)
  \/ chunkmap_set_max_cas(self)
  \/ Finish(self)

Next28 == \E self \in Threads : StartOnce(self) \/ Run28(self)

Spec28 == Init28 /\ [][Next28]_vars /\ \A p \in Threads : WF_vars(Run28(p))

\* the calls of mi_bitmap_clear_once_set that have returned
Returned28 ==
  { p \in Threads :
      /\ \E c \in Menu28(p) \ menu[p] : c.op = "clear_once_set"
      /\ ~InClearOnceSet(p) }

\* the number of times the bit has been set: the xset(SET) of thread 1 has
\* written the chunk
Sets28 ==
  IF /\ \E c \in Menu28(1) \ menu[1] : c.op = "xset"
     /\ ~(th[1].op = "xset" /\ th[1].pc = "mi_bitmap_xset")
  THEN 1 ELSE 0

\* C28: a call of mi_bitmap_clear_once_set returns by a step of its own
\* that takes the bit from 1 to 0; the calls that have returned and the bit
\* itself add up to the number of times the bit was set, so of the calls
\* waiting on a bit that was set once exactly one returns: one does return,
\* and the others stay in the call.
C28_OneReturnPerSet ==
  /\ [](Cardinality(Returned28) + (IF BitIsSet(Idx8) THEN 1 ELSE 0) = Sets28)
  /\ [][\A p \in Threads :
          (InClearOnceSet(p) /\ th'[p].pc = "done")
          => (BitIsSet(Idx8) /\ ~BitIsSet(Idx8)')]_vars
  /\ ((Sets28 = 1 /\ \E p \in Threads : InClearOnceSet(p))
        ~> (Cardinality(Returned28) = 1))

\* two threads have called mi_bitmap_clear_once_set and the bit was set
\* once: thread 2 has returned, thread 1 is in the busy wait, the bit is 0
C28_Witness ==
  /\ Sets28 = 1
  /\ Returned28 = {2}
  /\ th[1].pc = "clear_once_set_wait"
  /\ ~BitIsSet(Idx8)

(***************************************************************************)
(* Spec29: mi_bchunk_try_find_and_clear on one chunk, one call at a time,  *)
(* from every chunk whose fields are zero, partially set or all ones.      *)
(***************************************************************************)
Fields29 == {mi_bfield_zero, 2^2 + 2^5, mi_bfield_all_set}

Menu29 == { CallRec("bfind1", FALSE, 0, 1, 0) }

Init29 ==
  /\ chunk_count = 1
  /\ \E c \in [0..(MI_BCHUNK_FIELDS - 1) -> Fields29] : chunks = [i \in {0} |-> c]
  /\ chunkmap = [f \in 0..(MI_BCHUNK_FIELDS - 1) |->
                   IF f = 0 /\ chunks[0] # ZeroChunk THEN 1 ELSE 0]
  /\ chunk_max_accessed = 0
  /\ busy_wait = 0
  /\ th = [p \in Threads |-> T0]
  /\ menu = [p \in Threads |-> Menu29]
  /\ net = <<>>

Next29 ==
  \E self \in Threads :
    \/ Start20(self)
    \/ Find1Step(self) \/ CasStep(self)
    \/ Finish(self)

Spec29 == Init29 /\ [][Next29]_vars

\* the bits set in chunk value cs
ChunkBits(cs) ==
  { k \in 0..(MI_BCHUNK_BITS - 1) :
      Shr(cs[k \div MI_BFIELD_BITS], k % MI_BFIELD_BITS) % 2 = 1 }

NotAllSet(cs, S) ==
  { k \in S : cs[k \div MI_BFIELD_BITS] # mi_bfield_all_set }

\* the element the two passes come to first: the least element of S in a
\* field that is not all ones, or the least element of S when there is none
TwoPassMin(cs, S) ==
  IF NotAllSet(cs, S) # {} THEN SetMin(NotAllSet(cs, S)) ELSE SetMin(S)

Fields30 ==
  {mi_bfield_zero, 255, 255 * 2^(MI_BFIELD_BITS - 8),
   mi_bfield_all_set - 2^(MI_BFIELD_BITS - 8), mi_bfield_all_set - 2^7,
   mi_bfield_all_set}

Menu30 == { CallRec("bfind8", FALSE, 0, 8, 0) }

Init30 ==
  /\ chunk_count = 1
  /\ \E c \in [0..(MI_BCHUNK_FIELDS - 1) -> Fields30] : chunks = [i \in {0} |-> c]
  /\ chunkmap = [f \in 0..(MI_BCHUNK_FIELDS - 1) |->
                   IF f = 0 /\ chunks[0] # ZeroChunk THEN 1 ELSE 0]
  /\ chunk_max_accessed = 0
  /\ busy_wait = 0
  /\ th = [p \in Threads |-> T0]
  /\ menu = [p \in Threads |-> Menu30]
  /\ net = <<>>

Next30 ==
  \E self \in Threads :
    \/ Start20(self)
    \/ mi_bchunk_try_find_and_clear8(self)
    \/ mi_bchunk_try_find_and_clear8_1(self)
    \/ CasStep(self)
    \/ Finish(self)

Spec30 == Init30 /\ [][Next30]_vars

\* the byte-aligned groups of 8 bits of chunk value cs that are all set
FullBytes(cs) ==
  { k \in 0..(MI_BCHUNK_SIZE - 1) : Range(8 * k, 8) \subseteq ChunkBits(cs) }

Fields31 ==
  {mi_bfield_zero, 2^(MI_BFIELD_BITS - 1) + 2^(MI_BFIELD_BITS - 2), 2^0 + 2^1,
   2^2 + 2^3 + 2^5 + 2^6 + 2^8 + 2^9 + 2^11 + 2^12 + 2^13, mi_bfield_all_set}

N31 == {0, 1, 2, 3, MI_BFIELD_BITS, MI_BFIELD_BITS + 1}

Menu31 == { CallRec("bfindNX", FALSE, 0, n, 0) : n \in N31 }

Init31 ==
  /\ chunk_count = 1
  /\ \E c \in [0..(MI_BCHUNK_FIELDS - 1) -> Fields31] : chunks = [i \in {0} |-> c]
  /\ chunkmap = [f \in 0..(MI_BCHUNK_FIELDS - 1) |->
                   IF f = 0 /\ chunks[0] # ZeroChunk THEN 1 ELSE 0]
  /\ chunk_max_accessed = 0
  /\ busy_wait = 0
  /\ th = [p \in Threads |-> T0]
  /\ menu = [p \in Threads |-> IF p = 1 THEN Menu31 ELSE {}]
  /\ net = <<>>

Next31 ==
  \E self \in Threads :
    \/ Start20(self)
    \/ mi_bchunk_try_find_and_clearNX(self)
    \/ mi_bchunk_try_find_and_clearNX_1(self)
    \/ CasStep(self)
    \/ Finish(self)

Spec31 == Init31 /\ [][Next31]_vars

\* the starts of the runs of n bits of S that lie inside one field
RunsInField(S, n) ==
  { k \in 0..(MI_BCHUNK_BITS - 1) :
      /\ (k % MI_BFIELD_BITS) + n <= MI_BFIELD_BITS
      /\ Range(k, n) \subseteq S }

\* C31: on a quiescent chunk and for 1 <= n <= MI_BFIELD_BITS,
\* mi_bchunk_try_find_and_clearNX returns true exactly when some field has n
\* consecutive set bits; the run it returns lies inside one field, is the
\* lowest such run of the lowest such field, and exactly its n bits are
\* cleared; n = 0 and n > MI_BFIELD_BITS return false; a call that returns
\* false leaves the chunk as it was.
C31_RunInField ==
  \A p \in Threads :
    AtReturn(p, "bfindNX")
    => LET t == th[p]
           pre == ChunkBits(t.snap)
           runs == RunsInField(pre, t.n)
       IN  /\ (t.n = 0 \/ t.n > MI_BFIELD_BITS) => ~t.ret
           /\ (t.n >= 1 /\ t.n <= MI_BFIELD_BITS) => (t.ret <=> runs # {})
           /\ t.ret => /\ (t.ridx % MI_BFIELD_BITS) + t.n <= MI_BFIELD_BITS
                       /\ t.ridx = SetMin(runs)
                       /\ ChunkBits(chunks[0]) = pre \ Range(t.ridx, t.n)
           /\ ~t.ret => chunks[0] = t.snap

\* a call with n = 3 passed three runs of two bits in field 0 and took the
\* run of three bits at bit 11
C31_Witness ==
  \E p \in Threads :
    /\ AtReturn(p, "bfindNX")
    /\ th[p].n = 3 /\ th[p].ret /\ th[p].ridx = 11
    /\ {2, 3, 5, 6, 8, 9} \subseteq ChunkBits(chunks[0])

(***************************************************************************)
(* Spec32: mi_bchunk_try_find_and_clearN_ on one chunk, called by one      *)
(* thread with MI_BFIELD_BITS <= n <= MI_BCHUNK_BITS, from every chunk     *)
(* whose fields are taken from Fields32: zero, the four lowest bits, all   *)
(* bits but bit 5, all ones.                                               *)
(***************************************************************************)
Fields32 ==
  {mi_bfield_zero, 2^4 - 1, mi_bfield_all_set - 2^5, mi_bfield_all_set}

N32 ==
  {MI_BFIELD_BITS, MI_BFIELD_BITS + 4, MI_BFIELD_BITS + 5, MI_BFIELD_BITS + 6,
   2 * MI_BFIELD_BITS, 2 * MI_BFIELD_BITS + 5, 3 * MI_BFIELD_BITS + 4,
   MI_BCHUNK_BITS}

Menu32 == { CallRec("bfindN_", FALSE, 0, n, 0) : n \in N32 }

Init32 ==
  /\ chunk_count = 1
  /\ \E c \in [0..(MI_BCHUNK_FIELDS - 1) -> Fields32] : chunks = [i \in {0} |-> c]
  /\ chunkmap = [f \in 0..(MI_BCHUNK_FIELDS - 1) |->
                   IF f = 0 /\ chunks[0] # ZeroChunk THEN 1 ELSE 0]
  /\ chunk_max_accessed = 0
  /\ busy_wait = 0
  /\ th = [p \in Threads |-> T0]
  /\ menu = [p \in Threads |-> IF p = 1 THEN Menu32 ELSE {}]
  /\ net = <<>>

Spec32 == Init32 /\ [][Next22]_vars

\* the fields i at which a run of n bits of S starts and ends in the chunk
RunsAtField(S, n) ==
  { i \in 0..(MI_BCHUNK_FIELDS - 1) :
      /\ i * MI_BFIELD_BITS + n <= MI_BCHUNK_BITS
      /\ Range(i * MI_BFIELD_BITS, n) \subseteq S }

\* C32: on a quiescent chunk and for MI_BFIELD_BITS <= n <= MI_BCHUNK_BITS,
\* mi_bchunk_try_find_and_clearN_ returns true exactly when the n bits from
\* the start of some field are all set; it returns the least such field
\* start (the pre-scan skips none) and clears exactly those n bits; a call
\* that returns false leaves the chunk as it was.
C32_FieldAligned ==
  \A p \in Threads :
    (AtReturn(p, "bfindN_") /\ th[p].n >= MI_BFIELD_BITS
                            /\ th[p].n <= MI_BCHUNK_BITS)
    => LET t == th[p]
           pre == ChunkBits(t.snap)
           runs == RunsAtField(pre, t.n)
       IN  /\ t.ret <=> runs # {}
           /\ t.ret => /\ t.ridx = SetMin(runs) * MI_BFIELD_BITS
                       /\ ChunkBits(chunks[0]) = pre \ Range(t.ridx, t.n)
           /\ ~t.ret => chunks[0] = t.snap

\* a call with n = 2 * MI_BFIELD_BITS met the clear bit 5 of field 1 while
\* scanning from field 0, skipped to field 2 and took fields 2 and 3
C32_Witness ==
  \E p \in Threads :
    /\ AtReturn(p, "bfindN_")
    /\ th[p].n = 2 * MI_BFIELD_BITS
    /\ th[p].snap = [f \in 0..(MI_BCHUNK_FIELDS - 1) |->
                       IF f = 1 THEN mi_bfield_all_set - 2^5
                       ELSE mi_bfield_all_set]
    /\ th[p].ret /\ th[p].ridx = 2 * MI_BFIELD_BITS

(***************************************************************************)
(* Spec33: one thread calls mi_bitmap_try_find_and_claim, with a claim_fun *)
(* that always returns false with keep_set = true, on a bitmap of          *)
(* MI_BFIELD_BITS + 2 chunks (two chunkmap fields).  The claim_fun is      *)
(* called once for every chunk the search visits.  One bit is set in each  *)
(* chunk of a subset of Chunks33, and chunk_max_accessed has any of the    *)
(* values of Acc33 (mi_bitmap_unsafe_setN sets bits above it, and          *)
(* mi_bitmap_xset raises it above every set bit).                          *)
(***************************************************************************)
Chunks33 == {0, 2, 5, MI_BFIELD_BITS - 1, MI_BFIELD_BITS, MI_BFIELD_BITS + 1}

Acc33 == {0, 2, 6, MI_BFIELD_BITS - 1, MI_BFIELD_BITS, MI_BFIELD_BITS + 1}

Tseqs33 == {0, 1, 3, MI_BFIELD_BITS + 3}

Menu33 == { CallRec("claim_keep", FALSE, 0, 1, q) : q \in Tseqs33 }

Init33 ==
  /\ chunk_count = ChunkCount21
  /\ \E C \in SUBSET Chunks33 :
       LET S == { c * MI_BCHUNK_BITS + 7 : c \in C }
       IN  chunks = ChunksOf(S, ChunkCount21) /\ chunkmap = ChunkmapOf(S)
  /\ chunk_max_accessed \in Acc33
  /\ busy_wait = 0
  /\ th = [p \in Threads |-> T0]
  /\ menu = [p \in Threads |-> IF p = 1 THEN Menu33 ELSE {}]
  /\ net = <<>>

Next33 ==
  \E self \in Threads :
    \/ Start20(self)
    \/ mi_bitmap_find(self)
    \/ mi_bitmap_find_outer(self)
    \/ Find1Step(self) \/ ClaimStep(self)
    \/ CasStep(self)
    \/ Finish(self)

Spec33 == Init33 /\ [][Next33]_vars

\* the elements of S in ascending order
RECURSIVE Ascending(_)
Ascending(S) ==
  IF S = {} THEN <<>> ELSE <<SetMin(S)>> \o Ascending(S \ {SetMin(S)})

\* [start, cycle) ascending, then [0, start), then [cycle, MI_BFIELD_BITS)
CyclicOrder(S, start, cycle) ==
  Ascending({ k \in S : start <= k /\ k < cycle })
    \o Ascending({ k \in S : k < start })
    \o Ascending({ k \in S : k >= cycle })

\* the chunks of chunkmap field f in the order of the inner iteration
ChunkOrder(f, tseq) ==
  LET cyc == IF f # chunk_max_accessed \div MI_BFIELD_BITS THEN MI_BFIELD_BITS
             ELSE 1 + (chunk_max_accessed % MI_BFIELD_BITS)
      bits == { e \in 0..(MI_BFIELD_BITS - 1) : Shr(chunkmap[f], e) % 2 = 1 }
      ord == CyclicOrder(bits, tseq % cyc, cyc)
  IN  [i \in 1..Len(ord) |-> f * MI_BFIELD_BITS + ord[i]]

\* the chunks of the chunkmap fields fs, one field after the other
RECURSIVE ChunksInOrder(_, _)
ChunksInOrder(fs, tseq) ==
  IF fs = <<>> THEN <<>>
  ELSE ChunkOrder(Head(fs), tseq) \o ChunksInOrder(Tail(fs), tseq)

\* the chunks a search with this tseq visits when no visit returns true
VisitOrder(tseq) ==
  LET cyc == chunk_max_accessed \div MI_BFIELD_BITS + 1
      fields == 0..(_mi_divide_up(chunk_count, MI_BFIELD_BITS) - 1)
  IN  ChunksInOrder(CyclicOrder(fields, tseq % cyc, cyc), tseq)

\* the chunks thread p has passed to claim_fun in its call
VisitedChunks(p) ==
  [i \in 1..Len(th[p].visited) |-> th[p].visited[i][1] \div MI_BCHUNK_BITS]

InitBits34 == Range(MI_BCHUNK_BITS, 2 * MI_BFIELD_BITS + 2)

Menu34 ==
  { CallRec("xset", MI_BIT_SET, MI_BCHUNK_BITS + 3, 1, 0),
    CallRec("xset", MI_BIT_CLEAR, MI_BCHUNK_BITS + 2 * MI_BFIELD_BITS + 1, 1, 0),
    CallRec("xsetN", MI_BIT_SET, MI_BCHUNK_BITS + MI_BFIELD_BITS - 2, 5, 0),
    CallRec("xsetN", MI_BIT_CLEAR, MI_BCHUNK_BITS + MI_BFIELD_BITS - 2, 5, 0),
    CallRec("find1", FALSE, 0, 1, 0),
    CallRec("findNX", FALSE, 0, 3, 0),
    CallRec("findN_", FALSE, 0, 2 * MI_BFIELD_BITS + 2, 0),
    CallRec("claim", FALSE, 0, 1, 0) }

Init34 == InitBitmap(InitBits34, 2, [p \in Threads |-> Menu34])

\* the one call of a thread
Start34(self) == th[self].ops = 0 /\ StartOnce(self)

Run34(self) ==
  \/ FindStep(self) \/ Find1Step(self) \/ ClaimStep(self)
  \/ mi_bchunk_try_find_and_clearNX(self)
  \/ mi_bchunk_try_find_and_clearNX_1(self)
  \/ mi_bchunk_try_find_and_clearN_(self)
  \/ mi_bchunk_try_find_and_clearN_1(self)
  \/ TryXsetNStep(self) \/ CasStep(self)
  \/ mi_bitmap_xset(self)
  \/ mi_bitmap_xsetN_(self)
  \/ mi_bitmap_xsetN_1(self)
  \/ mi_bchunk_xsetN_next(self)
  \/ ChunkmapStep(self)
  \/ Finish(self)

Next34 == \E self \in Threads : Start34(self) \/ Run34(self)

Spec34 == Init34 /\ [][Next34]_vars /\ \A p \in Threads : WF_vars(Run34(p))

\* thread p is in a compare-and-swap loop
InCasLoop(p) == th[p].pc \in {"cas_load", "cas_try"}

InitSets35 ==
  { {3},
    {3} \cup Range(MI_BCHUNK_BITS + 8, 8) \cup {2 * MI_BCHUNK_BITS + 5} }

Menu35 ==
  { CallRec("find1", FALSE, 0, 1, q) : q \in {0, 1} }
    \cup { CallRec("find8", FALSE, 0, 8, 0),
           CallRec("claim", FALSE, 0, 1, 1),
           CallRec("findX", FALSE, 0, MI_BFIELD_BITS, 0),
           CallRec("findNX", FALSE, 0, 3, 0),
           CallRec("findN_", FALSE, 0, MI_BFIELD_BITS + 1, 0) }

Init35 ==
  \E S \in InitSets35 : InitBitmap(S, 3, [p \in Threads |-> Menu35])

\* a search starts on the quiescent bitmap; snap keeps the chunkmap it finds
Start35(self) ==
  \E c \in menu[self] :
    LET t == th[self]
    IN  /\ Quiescent
        /\ t.ops < MaxOps
        /\ th' = [th EXCEPT ![self] =
                    [t EXCEPT !.pc = Entry(c), !.stk = <<"done">>,
                              !.ops = t.ops + 1,
                              !.op = c.op, !.set = c.set, !.idx = c.idx,
                              !.n = c.n, !.tseq = c.tseq,
                              !.ret = FALSE, !.ridx = 0, !.snap = chunkmap]]
        /\ UNCHANGED <<chunks, chunkmap, chunk_max_accessed, others>>

Next35 ==
  \E self \in Threads :
    \/ Start35(self)
    \/ FindStep(self) \/ Find1Step(self)
    \/ mi_bchunk_try_find_and_clear8(self)
    \/ mi_bchunk_try_find_and_clear8_1(self)
    \/ mi_bchunk_try_find_and_clearX(self)
    \/ mi_bchunk_try_find_and_clearNX(self)
    \/ mi_bchunk_try_find_and_clearN_(self)
    \/ ClaimStep(self) \/ CasStep(self)
    \/ mi_bchunk_all_are_clear(self)
    \/ chunkmap_try_clear_1(self)
    \/ chunkmap_try_clear_2(self)
    \/ chunkmap_set_max(self)
    \/ chunkmap_set_max_cas(self)
    \/ Finish(self)

Spec35 == Init35 /\ [][Next35]_vars

SearchOps == {"find1", "find8", "findX", "findNX", "findN_", "claim"}

\* the chunks whose chunkmap bit was set when the call of thread p started
CoveredAtStart(p) ==
  { i \in 0..(chunk_count - 1) :
      Shr(th[p].snap[i \div MI_BFIELD_BITS], i % MI_BFIELD_BITS) % 2 = 1 }

\* the chunks the returned call of thread p visited and in which the
\* chunk-level search found nothing: all chunks covered at the start when
\* the call returns false, the covered chunks below the one of the result
\* when it returns true with tseq = 0 (the visits are then in ascending
\* order); without the chunks in which a bit was passed to claim_fun
FailedVisits(p) ==
  LET t == th[p]
      passed == IF t.op = "claim"
                THEN { t.visited[i][1] : i \in 1..Len(t.visited) } ELSE {}
      seen == IF ~t.ret THEN CoveredAtStart(p)
              ELSE IF t.tseq = 0
              THEN { i \in CoveredAtStart(p) : i < t.ridx \div MI_BCHUNK_BITS }
              ELSE {}
  IN  seen \ { k \div MI_BCHUNK_BITS : k \in passed }

InitBits36 == {MI_BCHUNK_BITS + 3, MI_BCHUNK_BITS + 4}

Menu36 == { CallRec("claim", FALSE, 0, 1, 0) }

Init36 == InitBitmap(InitBits36, 2, [p \in Threads |-> Menu36])

Next36 ==
  \E self \in Threads :
    \/ StartAny(self)
    \/ FindStep(self) \/ Find1Step(self) \/ ClaimStep(self)
    \/ CasStep(self)
    \/ mi_bchunk_all_are_clear(self)
    \/ chunkmap_try_clear_1(self)
    \/ chunkmap_try_clear_2(self)
    \/ chunkmap_set_max(self)
    \/ chunkmap_set_max_cas(self)
    \/ Finish(self)

Spec36 == Init36 /\ [][Next36]_vars

\* claim_fun is running in thread p, or has returned false with keep_set
\* and the bit is not yet restored
InClaimFun(p) == th[p].pc \in {"claim_fun", "claim_restore"}

\* C36: claim_fun runs only for a bit that the same call has changed from
\* 1 to 0 by its own atomic step and that is still 0; two calls never have
\* claim_fun running for the same index; and the restore after
\* keep_set = true has always found the bit clear.
C36_ClaimExclusive ==
  \A p \in Threads :
    /\ th[p].wasclear
    /\ InClaimFun(p)
         => /\ th[p].ridx \in th[p].hold
            /\ ~BitIsSet(th[p].ridx)
            /\ \A q \in Threads \ {p} :
                 InClaimFun(q) => th[q].ridx # th[p].ridx

\* claim_fun runs in one thread for bit 4 of chunk 1 while another thread,
\* whose claim_fun returned false with keep_set, is about to restore bit 3
C36_Witness ==
  \E p, q \in Threads :
    /\ th[p].pc = "claim_restore" /\ th[p].ridx = MI_BCHUNK_BITS + 3
    /\ th[q].pc = "claim_fun" /\ th[q].ridx = MI_BCHUNK_BITS + 4

\* C37: every expansion of mi_bfield_cycle_iterate in mi_bitmap_find meets
\* the asserted preconditions start <= cycle, start < MI_BFIELD_BITS and
\* cycle < MI_BFIELD_BITS: the outer one over the chunkmap fields (cycle
\* cmap_acc + 1) when the call starts, and the inner one over the chunkmap
\* entry it has loaded (cycle MI_BFIELD_BITS, or cmap_acc_bits in the field
\* of chunk_max_accessed) for every field the outer iteration comes to.
C37_IterateAsserts ==
  \A p \in Threads :
    LET t == th[p]
        cmap_cycle == chunk_max_accessed \div MI_BFIELD_BITS + 1
        b == mi_bfield_iterate_b(t.x_b, t.cmap_mask, t.x_mask)
        cmap_idx == mi_bfield_find_least_bit(b).idx
        cmap_entry_cycle == IF cmap_idx # t.cmap_acc THEN MI_BFIELD_BITS
                            ELSE t.cmap_acc_bits
    IN  /\ t.pc = "mi_bitmap_find"
             => mi_bfield_iterate_asserts(t.tseq % cmap_cycle, cmap_cycle)
        /\ (t.pc = "mi_bitmap_find_outer" /\ t.x_bcount > 0)
             => mi_bfield_iterate_asserts(t.tseq % cmap_entry_cycle,
                                          cmap_entry_cycle)

(***************************************************************************)
(* Spec38: one call at a time on a bitmap of 2 * MI_BFIELD_BITS + 1 chunks *)
(* that starts empty: bits are set up to the last bit of the bitmap with   *)
(* mi_bitmap_unsafe_setN, mi_bitmap_xset and mi_bitmap_xsetN, and the      *)
(* chunkmap is read by mi_bitmap_try_find_and_clear, mi_bitmap_bsr and     *)
(* _mi_bitmap_forall_set.                                                  *)
(***************************************************************************)
MaxBits38 == ChunkCount19 * MI_BCHUNK_BITS

Menu38 ==
  { CallRec("unsafe_setN", MI_BIT_SET, MaxBits38 - 2 * MI_BCHUNK_BITS + 5,
            2 * MI_BCHUNK_BITS - 5, 0),
    CallRec("unsafe_setN", MI_BIT_SET, MI_BFIELD_BITS * MI_BCHUNK_BITS - 4,
            4 + MI_BFIELD_BITS * MI_BCHUNK_BITS + 7, 0),
    CallRec("xset", MI_BIT_SET, MaxBits38 - 1, 1, 0),
    CallRec("xsetN", MI_BIT_SET, MaxBits38 - 5, 5, 0),
    CallRec("find1", FALSE, 0, 1, 0),
    CallRec("find1", FALSE, 0, 1, MI_BFIELD_BITS + 3),
    CallRec("bsr", FALSE, 0, 1, 0),
    CallRec("forall_set_true", FALSE, 0, 1, 0) }

Init38 == InitBitmap({}, ChunkCount19, [p \in Threads |-> Menu38])

Next38 ==
  \E self \in Threads :
    \/ Start20(self)
    \/ UnsafeSetNStep(self)
    \/ mi_bitmap_xset(self)
    \/ mi_bitmap_xsetN_(self) \/ mi_bitmap_xsetN_1(self)
    \/ mi_bchunk_xsetN_next(self)
    \/ ChunkmapStep(self) \/ CasStep(self)
    \/ FindStep(self) \/ Find1Step(self)
    \/ BsrStep(self) \/ ForallSetStep(self)
    \/ Finish(self)

Spec38 == Init38 /\ [][Next38]_vars

\* the calls that take chunk indices from the chunkmap
ChunkmapReaders == {"find1", "bsr", "forall_set_true"}

\* C38: no chunkmap bit with an index >= chunk_count is ever set; every
\* chunk index that mi_bitmap_find, mi_bitmap_bsr and _mi_bitmap_forall_set
\* take from the chunkmap is below chunk_count, and every index they return
\* or pass to the visitor is below max_bits.
C38_ChunkmapInRange ==
  /\ \A i \in chunk_count..(MI_BCHUNK_BITS - 1) : ~CmapBitIsSet(i)
  /\ \A p \in Threads :
       th[p].op \in ChunkmapReaders
       => /\ th[p].chunk_idx < chunk_count
          /\ (th[p].pc = "done" /\ th[p].ret) => th[p].ridx < mi_bitmap_max_bits
          /\ th[p].op = "forall_set_true"
               => \A i \in 1..Len(th[p].visited) :
                    th[p].visited[i][1] < mi_bitmap_max_bits

\* after mi_bitmap_unsafe_setN up to the last bit of the bitmap, with the
\* last chunk set by the memset of the chunks in between, mi_bitmap_bsr has
\* returned the last bit
C38_Witness ==
  \E p \in Threads :
    /\ AtReturn(p, "bsr") /\ th[p].ret
    /\ th[p].ridx = mi_bitmap_max_bits - 1
    /\ \A k \in Range(MaxBits38 - 2 * MI_BCHUNK_BITS + 5, 2 * MI_BCHUNK_BITS - 5) :
         BitIsSet(k)

(***************************************************************************)
(* The assertions of mi_bitmap_unsafe_setN, checked under Spec19.          *)
(***************************************************************************)
\* `mi_assert_internal(n>0)` and `mi_assert_internal(idx + n <= mi_bitmap_max_bits(bitmap))`
unsafe_setN_entry_asserts(idx, n) ==
  /\ n > 0
  /\ idx + n <= mi_bitmap_max_bits

\* `mi_assert_internal(n < MI_BCHUNK_BITS)` and
\* `mi_assert_internal(chunk_idx < MI_BCHUNK_FIELDS)` before the last chunk
unsafe_setN_last_asserts(n, chunk_idx) ==
  /\ n < MI_BCHUNK_BITS
  /\ chunk_idx < MI_BCHUNK_FIELDS

\* thread p is at `if (n > 0)` after the loop, with bits left for a last chunk
AtLastChunk(p) ==
  /\ th[p].pc = "unsafe_setN_mid"
  /\ th[p].chunk_idx >= th[p].un_end
  /\ th[p].un_n > 0

\* C39: the assertions of mi_bitmap_unsafe_setN hold in every call with
\* n >= 1 and idx + n <= max_bits: n > 0 and idx + n <= max_bits on entry,
\* n < MI_BCHUNK_BITS and chunk_idx < MI_BCHUNK_FIELDS before the last,
\* partially covered chunk is written.
C39_UnsafeSetNAsserts ==
  \A p \in Threads :
    /\ th[p].pc = "mi_bitmap_unsafe_setN"
         => unsafe_setN_entry_asserts(th[p].idx, th[p].n)
    /\ AtLastChunk(p) => unsafe_setN_last_asserts(th[p].un_n, th[p].chunk_idx)

\* what does hold before the last chunk is written: fewer than
\* MI_BCHUNK_BITS bits are left and the chunk is one of the bitmap
UnsafeSetNLastChunkInBitmap ==
  \A p \in Threads :
    /\ th[p].pc = "mi_bitmap_unsafe_setN"
         => unsafe_setN_entry_asserts(th[p].idx, th[p].n)
    /\ AtLastChunk(p) => /\ th[p].un_n < MI_BCHUNK_BITS
                         /\ th[p].chunk_idx < chunk_count

====
